---- MODULE Spec2Model ----
(***************************************************************************)
(* fastvoice: hotkey state machine (core/hotkey_manager.py), application   *)
(* session state machine (main.py), audio capture auto-stop                *)
(* (audio_capture.py) and the asynchronous recognition worker              *)
(* (core/asr_worker.py).                                                   *)
(*                                                                         *)
(* Time.  The source stores wall-clock stamps (time.time()) and only ever  *)
(* uses differences "current_time - stamp".  Every stamp is therefore kept *)
(* as the time elapsed since it was taken, in milliseconds, advanced by    *)
(* TickTime and saturated just above the largest threshold it is compared  *)
(* with.  A threading.Timer is kept as the time remaining until it is due; *)
(* a due timer may run up to one Tick late (thread scheduling).            *)
(***************************************************************************)
EXTENDS Integers, Sequences, FiniteSets, TLC

NONE == 0 - 1

Min(a, b) == IF a < b THEN a ELSE b

(***************************************************************************)
(* core/hotkey_manager.py : class constants                                *)
(***************************************************************************)
DEBOUNCE_MS == 50
FIRST_RELEASE_TIMEOUT == 150
DOUBLE_CLICK_INTERVAL == 500
LONG_PRESS_THRESHOLD == 350
TAIL_SOUND_DELAY == 200
WATCHDOG_TIMEOUT_S == 10
WATCHDOG_SLEEP_S == 1

WATCHDOG_TIMEOUT_MS == WATCHDOG_TIMEOUT_S * 1000
WATCHDOG_SLEEP_MS == WATCHDOG_SLEEP_S * 1000

\* granularity of time: the debounce window, the smallest duration the code
\* distinguishes
Tick == DEBOUNCE_MS

\* saturation points of the elapsed-time stamps
ActivityCap == WATCHDOG_TIMEOUT_MS + WATCHDOG_SLEEP_MS + Tick
FirstKeydownCap == FIRST_RELEASE_TIMEOUT + Tick
FirstKeyupCap == DOUBLE_CLICK_INTERVAL + Tick
SecondKeydownCap == LONG_PRESS_THRESHOLD + Tick

\* HotkeyState
IDLE == "idle"
VOICE_RECORDING == "voice_recording"
VOICE_TAIL_COLLECTING == "voice_tail_collecting"
WAIT_FIRST_RELEASE == "wait_first_release"
WAIT_SECOND_KEY == "wait_second_key"
WAIT_LONG_PRESS == "wait_long_press"
TRANSLATE_RECORDING == "translate_recording"
TRANSLATE_TAIL_COLLECTING == "translate_tail_collecting"

HotkeyState == {IDLE, VOICE_RECORDING, VOICE_TAIL_COLLECTING, WAIT_FIRST_RELEASE,
                WAIT_SECOND_KEY, WAIT_LONG_PRESS, TRANSLATE_RECORDING,
                TRANSLATE_TAIL_COLLECTING}

\* HotkeyAction
VOICE_INPUT_PRESS == "voice_input_press"
VOICE_INPUT_RELEASE == "voice_input_release"
QUICK_TRANSLATE_PRESS == "quick_translate_press"
QUICK_TRANSLATE_RELEASE == "quick_translate_release"

\* key strings as produced by _key_to_string: the two bound keys of the
\* default configuration (each is an unbound key for the other binding)
Keys == {"alt_l", "alt_r"}

\* self._hotkeys after start(): DEFAULT_HOTKEYS on macOS
Hotkeys == [voice_input |-> {"alt_l"}, quick_translate |-> {"alt_r"}]

\* kinds of the threading.Timer closures created by _on_press / _on_release
FIRST_PRESS_TIMEOUT == "first_press_timeout"
DOUBLE_CLICK_TIMEOUT == "double_click_timeout"
CHECK_LONG_PRESS == "check_long_press"
FINISH_VOICE_TAIL == "finish_voice_tail_collecting"
FINISH_TRANSLATE_TAIL == "finish_translate_tail_collecting"

\* the messages with which the handlers report that they give an attempt up
LOG_WATCHDOG_RESET == "watchdog: no activity, state reset"
LOG_FIRST_PRESS_TIMEOUT == "first press timed out"
LOG_INTERVAL_TOO_LONG == "interval between the presses too long"
LOG_DOUBLE_CLICK_TIMEOUT == "double click timed out"
LOG_RELEASE_TOO_SLOW == "first release too slow"
LOG_RELEASE_IN_LONG_PRESS == "released while waiting for the long press"
LOG_CLEAR_PRESSED_KEYS == "pressed keys cleared"
LOG_CALLBACK_FAILED == "callback failed"

\* bound of the model: the listener delivers at most MaxKeyDowns key-downs
MaxKeyDowns == 5

\* bound of the model: at most MaxListeners keyboard listeners are created
MaxListeners == 3

\* bound of the model: FastVoiceApp creates at most MaxCaptures AudioCapture
\* objects
MaxCaptures == 2

\* bound of the model: a client of the worker alone calls start_session at
\* most MaxGeneration times
MaxGeneration == 3

\* bound of the model: a client of the worker alone keeps at most MaxQueued
\* tasks waiting
MaxQueued == 2

VARIABLES
    hk,           \* the HotkeyManager object
    fired,        \* the hotkey callbacks triggered by the last step, in order
    keydown_age,  \* time since the listener last delivered a key-down, per key
    keydowns,     \* number of key-downs the listener has delivered
    logged,       \* the messages of interest logged by the last step
    worker,       \* the ASRWorker object and its thread
    called,       \* the worker callbacks invoked by the last step
    calls,        \* the last two calls a client of the worker alone has made
    app,          \* the FastVoiceApp object
    cbt,          \* the thread on which the hotkey callbacks run
    caps,         \* the AudioCapture objects, each with its monitor thread
    signals,      \* the Qt signals emitted and not yet delivered
    lsn,          \* self._listener, the listeners created and the restarts
    lk,           \* the three mutexes and the calls of the threads under way
    audio,        \* the RecordingController, its capture and its segmenter
    vad,          \* a VadSegmenter driven directly, and what it was fed
    kb            \* the modifier keys held, and the PyObjCKeyboardListener

hkVars == <<hk, fired, keydown_age, keydowns>>
workerVars == <<worker, called>>
appVars == <<app, cbt, caps, signals>>
listenerVars == <<lsn>>
lockVars == <<lk>>
audioVars == <<audio, vad>>
keyboardVars == <<kb>>
vars == <<hk, fired, keydown_age, keydowns, logged,
          worker, called, calls, app, cbt, caps, signals, lsn, lk,
          audio, vad, kb>>

(***************************************************************************)
(* HotkeyManager                                                           *)
(***************************************************************************)

\* HotkeyManager.__init__
HotkeyManagerInit ==
    [ listener |-> "none",
      pressed_keys |-> {},
      state |-> IDLE,
      last_keydown_time |-> [k \in Keys |-> DEBOUNCE_MS],
      last_activity_time |-> NONE,
      watchdog_running |-> FALSE,
      watchdog_woke |-> FALSE,
      first_keydown_time |-> NONE,
      first_keyup_time |-> NONE,
      second_keydown_time |-> NONE,
      tail_timer |-> {},
      timers |-> {} ]

\* what a handler leaves behind: the manager, the callbacks it triggered and
\* the messages it logged
Outcome(h, callbacks, messages) ==
    [hk |-> h, fired |-> callbacks, logged |-> messages]

\* _match_hotkey
MatchHotkey(name, pressed) == Hotkeys[name] = pressed

\* valid_transitions in _transition_state
ValidTransitions ==
    [ s \in HotkeyState |->
        CASE s = IDLE -> {VOICE_RECORDING, WAIT_FIRST_RELEASE}
          [] s = WAIT_FIRST_RELEASE -> {WAIT_SECOND_KEY, IDLE}
          [] s = WAIT_SECOND_KEY -> {WAIT_LONG_PRESS, IDLE}
          [] s = WAIT_LONG_PRESS -> {TRANSLATE_RECORDING, IDLE}
          [] s = TRANSLATE_RECORDING -> {TRANSLATE_TAIL_COLLECTING, IDLE}
          [] s = TRANSLATE_TAIL_COLLECTING -> {IDLE}
          [] s = VOICE_RECORDING -> {VOICE_TAIL_COLLECTING, IDLE}
          [] s = VOICE_TAIL_COLLECTING -> {IDLE} ]

\* _transition_state without the test against valid_transitions
TransitionState_Unchecked(h, new_state) ==
    [h EXCEPT !.state = new_state, !.last_activity_time = 0]

\* _transition_state: the callers ignore the returned flag
TransitionState(h, new_state) ==
    IF new_state \notin ValidTransitions[h.state]
    THEN h
    ELSE [h EXCEPT !.state = new_state, !.last_activity_time = 0]

\* ResetState that leaves the state as it is
ResetState_KeepsState(h) ==
    [h EXCEPT !.last_activity_time = 0,
              !.last_keydown_time = [k \in Keys |-> DEBOUNCE_MS],
              !.first_keydown_time = NONE,
              !.first_keyup_time = NONE,
              !.second_keydown_time = NONE,
              !.tail_timer = {},
              !.timers = {[t EXCEPT !.survived_reset = TRUE] : t \in @}]

\* _reset_state: cancels only the tail timer; the timers created in
\* _on_press and for the double-click timeout are not referenced anywhere,
\* they stay pending and are from now on timers that have survived a reset
ResetState(h) ==
    [h EXCEPT !.state = IDLE,
              !.timers = {[t EXCEPT !.survived_reset = TRUE] : t \in @},
              !.last_activity_time = 0,
              !.last_keydown_time = [k \in Keys |-> DEBOUNCE_MS],
              !.first_keydown_time = NONE,
              !.first_keyup_time = NONE,
              !.second_keydown_time = NONE,
              !.tail_timer = {}]

\* threading.Timer(delay, closure).start() for a timer that is not kept
StartTimer(h, kind, delay) ==
    [h EXCEPT !.timers = @ \cup {[kind |-> kind, remaining |-> delay,
                                   survived_reset |-> FALSE]}]

\* StartTailTimer with no delay
StartTailTimer_NoDelay(h, kind) ==
    [h EXCEPT !.tail_timer = {[kind |-> kind, remaining |-> 0]}]

\* self._tail_timer.cancel(); self._tail_timer = threading.Timer(...); start()
StartTailTimer(h, kind) ==
    [h EXCEPT !.tail_timer = {[kind |-> kind, remaining |-> TAIL_SOUND_DELAY]}]

\* debounce test of _on_press: current_time - last_time < DEBOUNCE_MS / 1000.
\* last_time is self._last_keydown_time.get(key_str, 0): a key with no entry
\* has a stamp at least DEBOUNCE_MS old, which is how it is kept here
Debounced(h, k) ==
    h.last_keydown_time[k] < DEBOUNCE_MS

\* _on_release, WAIT_FIRST_RELEASE: release_time <= FIRST_RELEASE_TIMEOUT
FirstReleaseInTime(h) ==
    h.first_keydown_time <= FIRST_RELEASE_TIMEOUT

\* SecondPressTooLate with the interval test left out
SecondPressTooLate_Never(h) ==
    FALSE

\* _on_press, WAIT_SECOND_KEY: interval > DOUBLE_CLICK_INTERVAL
SecondPressTooLate(h) ==
    h.first_keyup_time > DOUBLE_CLICK_INTERVAL

\* _on_press below "with self._state_lock"
OnPressLocked(h) ==
    LET is_voice_hotkey == MatchHotkey("voice_input", h.pressed_keys)
        is_translate_hotkey == MatchHotkey("quick_translate", h.pressed_keys)
    IN  CASE is_voice_hotkey /\ h.state = IDLE ->
               Outcome(TransitionState(h, VOICE_RECORDING),
                       <<VOICE_INPUT_PRESS>>, <<>>)
          [] ~is_voice_hotkey /\ is_translate_hotkey /\ h.state = IDLE ->
               Outcome(StartTimer(
                         TransitionState([h EXCEPT !.first_keydown_time = 0,
                                                   !.first_keyup_time = NONE,
                                                   !.second_keydown_time = NONE],
                                         WAIT_FIRST_RELEASE),
                         FIRST_PRESS_TIMEOUT, FIRST_RELEASE_TIMEOUT),
                       <<>>, <<>>)
          [] is_translate_hotkey /\ h.state = WAIT_SECOND_KEY ->
               IF h.first_keyup_time = NONE
               THEN Outcome(h, <<>>, <<>>)
               ELSE IF SecondPressTooLate(h)
               THEN Outcome(ResetState(h), <<>>, <<LOG_INTERVAL_TOO_LONG>>)
               ELSE Outcome(StartTimer(
                              TransitionState([h EXCEPT !.second_keydown_time = 0],
                                              WAIT_LONG_PRESS),
                              CHECK_LONG_PRESS, LONG_PRESS_THRESHOLD),
                            <<>>, <<>>)
          [] OTHER -> Outcome(h, <<>>, <<>>)

\* OnPressHandler that takes a key-down while recording for a new press
OnPressHandler_Repeats(h, k) ==
    LET h1 == [h EXCEPT !.pressed_keys = @ \cup {k}]
        r == OnPressLocked([h1 EXCEPT !.last_keydown_time[k] = 0])
    IN  IF Debounced(h, k)
        THEN Outcome(h1, <<>>, <<>>)
        ELSE IF h.state = VOICE_RECORDING
             THEN [r EXCEPT !.fired = <<VOICE_INPUT_PRESS>>]
             ELSE r

\* _on_press(key)
OnPressHandler(h, k) ==
    LET h1 == [h EXCEPT !.pressed_keys = @ \cup {k}]
    IN  IF Debounced(h, k)
        THEN Outcome(h1, <<>>, <<>>)
        ELSE OnPressLocked([h1 EXCEPT !.last_keydown_time[k] = 0])

\* _on_release below "with self._state_lock"
OnReleaseLocked(h, k) ==
    LET is_voice_key == k \in Hotkeys.voice_input
        is_translate_key == k \in Hotkeys.quick_translate
    IN  CASE is_translate_key /\ h.state = WAIT_FIRST_RELEASE ->
               IF FirstReleaseInTime(h)
               THEN Outcome(StartTimer(
                              TransitionState([h EXCEPT !.first_keyup_time = 0],
                                              WAIT_SECOND_KEY),
                              DOUBLE_CLICK_TIMEOUT, DOUBLE_CLICK_INTERVAL),
                            <<>>, <<>>)
               ELSE Outcome(ResetState(h), <<>>, <<LOG_RELEASE_TOO_SLOW>>)
          [] is_translate_key /\ h.state = WAIT_LONG_PRESS ->
               Outcome(ResetState(h), <<>>, <<LOG_RELEASE_IN_LONG_PRESS>>)
          [] is_voice_key /\ h.state = VOICE_RECORDING ->
               Outcome(StartTailTimer(TransitionState(h, VOICE_TAIL_COLLECTING),
                                      FINISH_VOICE_TAIL),
                       <<>>, <<>>)
          [] is_translate_key /\ h.state = TRANSLATE_RECORDING ->
               Outcome(StartTailTimer(TransitionState(h, TRANSLATE_TAIL_COLLECTING),
                                      FINISH_TRANSLATE_TAIL),
                       <<>>, <<>>)
          [] OTHER -> Outcome(h, <<>>, <<>>)

\* _on_release(key)
OnReleaseHandler(h, k) ==
    OnReleaseLocked([h EXCEPT !.pressed_keys = @ \ {k}], k)

\* the closures run by the timers, each under self._state_lock
TimerBody(h, kind) ==
    CASE kind = FIRST_PRESS_TIMEOUT ->
           IF h.state = WAIT_FIRST_RELEASE
           THEN Outcome(ResetState(h), <<>>, <<LOG_FIRST_PRESS_TIMEOUT>>)
           ELSE Outcome(h, <<>>, <<>>)
      [] kind = DOUBLE_CLICK_TIMEOUT ->
           IF h.state = WAIT_SECOND_KEY
           THEN Outcome(ResetState(h), <<>>, <<LOG_DOUBLE_CLICK_TIMEOUT>>)
           ELSE Outcome(h, <<>>, <<>>)
      [] kind = CHECK_LONG_PRESS ->
           IF h.state = WAIT_LONG_PRESS
           THEN Outcome(TransitionState(h, TRANSLATE_RECORDING),
                        <<QUICK_TRANSLATE_PRESS>>, <<>>)
           ELSE Outcome(h, <<>>, <<>>)
      [] kind = FINISH_VOICE_TAIL ->
           IF h.state = VOICE_TAIL_COLLECTING
           THEN Outcome(TransitionState(h, IDLE), <<VOICE_INPUT_RELEASE>>, <<>>)
           ELSE Outcome(h, <<>>, <<>>)
      [] kind = FINISH_TRANSLATE_TAIL ->
           IF h.state = TRANSLATE_TAIL_COLLECTING
           THEN Outcome(TransitionState(h, IDLE), <<QUICK_TRANSLATE_RELEASE>>, <<>>)
           ELSE Outcome(h, <<>>, <<>>)

\* a timer that is not kept runs its closure and is gone
TimerHandler(h, t) ==
    TimerBody([h EXCEPT !.timers = @ \ {t}], t.kind)

\* self._tail_timer runs its closure and is finished
TailTimerHandler(h, t) ==
    TimerBody([h EXCEPT !.tail_timer = {}], t.kind)

\* WatchdogCheck with the reset on timeout left out
WatchdogCheck_NeverResets(h) ==
    IF h.state = IDLE
    THEN Outcome([h EXCEPT !.last_activity_time = 0], <<>>, <<>>)
    ELSE Outcome(h, <<>>, <<>>)

\* watchdog_loop, the part under self._state_lock
WatchdogCheck(h) ==
    IF h.state = IDLE
    THEN Outcome([h EXCEPT !.last_activity_time = 0], <<>>, <<>>)
    ELSE IF h.last_activity_time > WATCHDOG_TIMEOUT_MS
    THEN Outcome(ResetState(h), <<>>, <<LOG_WATCHDOG_RESET>>)
    ELSE Outcome(h, <<>>, <<>>)

\* clear_pressed_keys()
ClearPressedKeysHandler(h) ==
    IF h.pressed_keys # {}
    THEN Outcome(ResetState([h EXCEPT !.pressed_keys = {}]),
                 <<>>, <<LOG_CLEAR_PRESSED_KEYS>>)
    ELSE Outcome(h, <<>>, <<>>)

\* ---- actions ----

\* _trigger_callback: an exception raised by the callback is caught and
\* logged
TriggerCallback(r, raises) ==
    IF raises THEN [r EXCEPT !.logged = @ \o <<LOG_CALLBACK_FAILED>>] ELSE r

\* the step of the hotkey manager that leaves outcome r; a callback it
\* triggers may raise
HotkeyStep(r) ==
    /\ \E raises \in (IF r.fired = <<>> THEN {FALSE} ELSE BOOLEAN) :
         LET o == TriggerCallback(r, raises)
         IN  /\ hk' = o.hk
             /\ fired' = o.fired
             /\ logged' = o.logged
    /\ UNCHANGED <<workerVars, calls, appVars, lockVars, audioVars, keyboardVars>>

\* start(): _start_watchdog, then the listener is created and started
Start ==
    /\ hk.listener = "none"
    /\ HotkeyStep(Outcome([hk EXCEPT !.listener = "alive",
                                     !.watchdog_running = TRUE,
                                     !.last_activity_time = 0], <<>>, <<>>))
    /\ UNCHANGED <<keydown_age, keydowns, listenerVars>>

\* the listener thread delivers a key-down: _on_press(key)
OnPress(k) ==
    /\ hk.listener = "alive"
    /\ keydowns < MaxKeyDowns
    /\ HotkeyStep(OnPressHandler(hk, k))
    /\ keydown_age' = [keydown_age EXCEPT ![k] = 0]
    /\ keydowns' = keydowns + 1
    /\ UNCHANGED listenerVars

\* the listener thread delivers a key-up: _on_release(key)
OnRelease(k) ==
    /\ hk.listener = "alive"
    /\ HotkeyStep(OnReleaseHandler(hk, k))
    /\ UNCHANGED <<keydown_age, keydowns, listenerVars>>

\* a timer created in _on_press / _on_release (not the tail timer) runs
TimerFires(t) ==
    /\ t \in hk.timers
    /\ t.remaining <= 0
    /\ HotkeyStep(TimerHandler(hk, t))
    /\ UNCHANGED <<keydown_age, keydowns, listenerVars>>

\* self._tail_timer runs (tail_timer is the set holding the pending timer
\* self._tail_timer refers to: empty when it is None, cancelled or finished)
TailTimerFires ==
    \E t \in hk.tail_timer :
        /\ t.remaining <= 0
        /\ HotkeyStep(TailTimerHandler(hk, t))
        /\ UNCHANGED <<keydown_age, keydowns, listenerVars>>

\* the instants by which an iteration of watchdog_loop must have run: the
\* loop sleeps WATCHDOG_SLEEP_S between iterations, so one runs within that
\* time of the stamp it compares with becoming old enough for it to act
WatchdogDue(h) ==
    /\ h.watchdog_running
    /\ h.last_activity_time >=
         (IF h.state = IDLE THEN WATCHDOG_SLEEP_MS
                            ELSE WATCHDOG_TIMEOUT_MS + WATCHDOG_SLEEP_MS)

\* one iteration of watchdog_loop after time.sleep(1).  The phase of the
\* loop relative to the key events is arbitrary: an iteration may run at any
\* instant at which it has an effect, once per instant.
WatchdogLoop ==
    /\ hk.watchdog_running
    /\ ~hk.watchdog_woke
    /\ WatchdogCheck(hk).hk # hk \/ WatchdogDue(hk)
    /\ LET r == WatchdogCheck(hk)
       IN  HotkeyStep(Outcome([r.hk EXCEPT !.watchdog_woke = TRUE],
                              r.fired, r.logged))
    /\ UNCHANGED <<keydown_age, keydowns, listenerVars>>

\* clear_pressed_keys(), called from the main thread (show_settings)
ClearPressedKeys ==
    /\ hk.pressed_keys # {}
    /\ HotkeyStep(ClearPressedKeysHandler(hk))
    /\ UNCHANGED <<keydown_age, keydowns, listenerVars>>

Older(a, cap) == IF a = NONE THEN NONE ELSE Min(a + Tick, cap)

\* Tick milliseconds pass.  A timer that is due runs before it is more than
\* one Tick late; the watchdog has run when it is due.
TickTime ==
    /\ \A t \in hk.timers : t.remaining >= 0
    /\ \A t \in hk.tail_timer : t.remaining >= 0
    /\ WatchdogDue(hk) => hk.watchdog_woke
    /\ hk' = [hk EXCEPT
         !.last_keydown_time = [k \in Keys |-> Older(@[k], DEBOUNCE_MS)],
         !.last_activity_time = Older(@, ActivityCap),
         !.first_keydown_time = Older(@, FirstKeydownCap),
         !.first_keyup_time = Older(@, FirstKeyupCap),
         !.second_keydown_time = Older(@, SecondKeydownCap),
         !.watchdog_woke = FALSE,
         !.tail_timer = {[t EXCEPT !.remaining = @ - Tick] : t \in @},
         !.timers = {[t EXCEPT !.remaining = @ - Tick] : t \in @}]
    /\ fired' = <<>>
    /\ logged' = <<>>
    /\ keydown_age' = [k \in Keys |-> Older(keydown_age[k], DEBOUNCE_MS)]
    /\ UNCHANGED <<keydowns, workerVars, calls, appVars, listenerVars, lockVars, audioVars, keyboardVars>>

(***************************************************************************)
(* ASRWorker                                                               *)
(***************************************************************************)

\* queue.Queue(maxsize=100)
QUEUE_MAXSIZE == 100

\* the callbacks given to ASRWorker
ON_RESULT == "on_result"
ON_ERROR == "on_error"

\* what recognition of a task can come to: a text, no text (recognize_bytes
\* returns None for an empty text and for any failure), or, when the engine
\* has not been created yet, a model that fails to load
TEXT == "text"
EMPTY == "empty"
LOAD_FAILED == "load_failed"

\* messages of _worker_loop and _process_audio
LOG_TASK_EXPIRED == "task expired, dropped"
LOG_ASR_RESULT == "ASR result"
LOG_ASR_EMPTY == "ASR result empty"
LOG_ASR_FAILED == "ASR worker failed"

\* the audio a client of the worker alone submits; EMPTY_AUDIO is b''
ClientAudio == {1}
EMPTY_AUDIO == 0

\* bound of the model: threads that are in _worker_loop at one time
MaxWorkerThreads == 2

\* bound of the model: segments a client pushes in one session
MaxSegments == 1

WorkerThreadIds == 1..MaxWorkerThreads

\* a thread that has not been started or has left _worker_loop; pc is where
\* a thread stands: "idle" (at the top of its loop), "got" (an item taken
\* from the queue, not yet compared) or "recognizing" (in _process_audio)
WorkerThreadNone == [pc |-> "none", item |-> <<>>]

\* ASRWorker.__init__; worker_thread is self._worker_thread (0: None),
\* threads the threads ever started on _worker_loop.  An item of the queue
\* is what was put: the tuple (audio_data, generation) of process_audio, a
\* record with both fields, or the bare bytes of push_segment and
\* finalize_session, a record of the segments joined; its field session,
\* the generation that was live when it was put, is not part of the item
\* and no handler reads it
ASRWorkerInit ==
    [ running |-> FALSE,
      generation |-> 0,
      segment_queue |-> <<>>,
      current_session_segments |-> <<>>,
      asr_engine |-> FALSE,
      worker_thread |-> 0,
      threads |-> [t \in WorkerThreadIds |-> WorkerThreadNone] ]

\* the threads that are in _worker_loop
LiveThreads(w) ==
    {t \in WorkerThreadIds : w.threads[t].pc # "none"}

\* the thread started next
NewThread(w) ==
    CHOOSE t \in WorkerThreadIds :
        w.threads[t].pc = "none" /\ \A u \in 1..(t - 1) : w.threads[u].pc # "none"

\* start()
WorkerStartHandler(w) ==
    IF w.running THEN w
    ELSE [w EXCEPT !.running = TRUE,
                   !.worker_thread = NewThread(w),
                   !.threads[NewThread(w)] = [pc |-> "idle", item |-> <<>>]]

\* stop(): clears the flag and joins the thread for at most 2 s.  A thread
\* that waits for an item leaves the loop within 0.1 s; the join of a thread
\* that is at work on an item may time out, the thread goes on
WorkerStopHandler(w) ==
    IF ~w.running THEN w
    ELSE [w EXCEPT !.running = FALSE,
                   !.worker_thread = 0,
                   !.threads = [t \in WorkerThreadIds |->
                                  IF t = w.worker_thread /\ @[t].pc = "idle"
                                  THEN WorkerThreadNone
                                  ELSE @[t]]]

\* WorkerRestartHandler that builds the worker anew
WorkerRestartHandler_Fresh(w) ==
    WorkerStartHandler([ASRWorkerInit EXCEPT !.segment_queue = w.segment_queue])

\* restart()
WorkerRestartHandler(w) ==
    WorkerStartHandler(WorkerStopHandler(w))

\* warmup()
WarmupHandler(w) ==
    [w EXCEPT !.asr_engine = TRUE]

\* start_session()
StartSessionHandler(w) ==
    [w EXCEPT !.generation = @ + 1,
              !.current_session_segments = <<>>]

\* process_audio(audio_data)
ProcessAudioHandler(w, audio_data) ==
    IF audio_data = EMPTY_AUDIO THEN w
    ELSE IF Len(w.segment_queue) >= QUEUE_MAXSIZE THEN w
    ELSE [w EXCEPT !.segment_queue =
             Append(@, [audio |-> audio_data, generation |-> w.generation])]

\* push_segment(segment): the bytes of the segment are put in the queue as
\* they are and kept for the session
PushSegmentHandler(w, segment) ==
    IF Len(w.segment_queue) >= QUEUE_MAXSIZE THEN w
    ELSE [w EXCEPT !.segment_queue = Append(@, [segments |-> <<segment>>,
                                                 session |-> w.generation]),
                   !.current_session_segments = Append(@, segment)]

\* finalize_session(): the segments of the session, joined, are put in the
\* queue as they are
FinalizeSessionHandler(w) ==
    IF w.current_session_segments = <<>> THEN w
    ELSE IF Len(w.segment_queue) >= QUEUE_MAXSIZE THEN w
    ELSE [w EXCEPT !.segment_queue =
             Append(@, [segments |-> w.current_session_segments,
                        session |-> w.generation])]

\* _worker_loop: the generation of an item, 0 for one that is not a tuple
Unpack(w, item) ==
    IF "generation" \in DOMAIN item
    THEN item.generation
    ELSE 0

\* Expired with a test no task fails
Expired_Never(w, item) ==
    Unpack(w, item) > w.generation + 1

\* _worker_loop: generation != current_generation
Expired(w, item) ==
    Unpack(w, item) # w.generation

\* what recognition of the task at hand can come to
Recognitions(w) ==
    IF w.asr_engine THEN {TEXT, EMPTY} ELSE {TEXT, EMPTY, LOAD_FAILED}

\* ProcessItem that compares the generation again when recognition is over
ProcessItem_Rechecked(w, t, recognition) ==
    LET w1 == [w EXCEPT !.asr_engine = TRUE, !.threads[t] = [pc |-> "idle", item |-> <<>>]]
    IN  CASE recognition = LOAD_FAILED ->
               [worker |-> w1, called |-> <<ON_ERROR>>, logged |-> <<LOG_ASR_FAILED>>]
          [] recognition = TEXT /\ Expired(w, w.threads[t].item[1]) ->
               [worker |-> w1, called |-> <<>>, logged |-> <<LOG_TASK_EXPIRED>>]
          [] recognition = TEXT /\ ~Expired(w, w.threads[t].item[1]) ->
               [worker |-> w1, called |-> <<ON_RESULT>>, logged |-> <<LOG_ASR_RESULT>>]
          [] recognition = EMPTY ->
               [worker |-> w1, called |-> <<>>, logged |-> <<LOG_ASR_EMPTY>>]

\* _process_audio(audio_data) as called by _worker_loop on thread t, with
\* the handling of what it raises (the audio of an item is never empty
\* here: process_audio puts none that is, and no empty segment is pushed)
ProcessItem(w, t, recognition) ==
    LET w1 == [w EXCEPT !.asr_engine = TRUE, !.threads[t] = [pc |-> "idle", item |-> <<>>]]
    IN  CASE recognition = LOAD_FAILED ->
               [worker |-> w1, called |-> <<ON_ERROR>>, logged |-> <<LOG_ASR_FAILED>>]
          [] recognition = TEXT ->
               [worker |-> w1, called |-> <<ON_RESULT>>, logged |-> <<LOG_ASR_RESULT>>]
          [] recognition = EMPTY ->
               [worker |-> w1, called |-> <<>>, logged |-> <<LOG_ASR_EMPTY>>]

\* _worker_loop on thread t from the unpacking of the item to the call of
\* _process_audio
WorkerCompareHandler(w, t) ==
    IF Expired(w, w.threads[t].item[1])
    THEN [worker |-> [w EXCEPT !.threads[t] = [pc |-> "idle", item |-> <<>>]],
          called |-> <<>>, logged |-> <<LOG_TASK_EXPIRED>>]
    ELSE [worker |-> [w EXCEPT !.threads[t].pc = "recognizing"],
          called |-> <<>>, logged |-> <<>>]

\* FastVoiceApp._on_asr_result / _on_asr_error as the worker's callbacks:
\* the signals they emit.  _on_asr_error fails on its import before it emits.
EmittedSignals(callbacks) ==
    IF callbacks = <<ON_RESULT>> THEN <<"asr_result">> ELSE <<>>

\* ---- actions of the worker threads ----

\* _worker_loop on thread t: self._segment_queue.get(timeout=0.1) returns an
\* item
WorkerGet(t) ==
    /\ worker.running
    /\ worker.threads[t].pc = "idle"
    /\ worker.segment_queue # <<>>
    /\ worker' = [worker EXCEPT !.threads[t] = [pc |-> "got",
                                                item |-> <<Head(worker.segment_queue)>>],
                                !.segment_queue = Tail(@)]
    /\ called' = <<>>
    /\ logged' = <<>>
    /\ UNCHANGED <<hkVars, listenerVars, lockVars, audioVars, keyboardVars, calls, appVars>>

\* _worker_loop on thread t: the item is compared with the live generation
\* and dropped, or _process_audio is entered
WorkerCompare(t) ==
    /\ worker.threads[t].pc = "got"
    /\ LET r == WorkerCompareHandler(worker, t)
       IN  /\ worker' = r.worker
           /\ called' = r.called
           /\ logged' = r.logged
    /\ UNCHANGED <<hkVars, listenerVars, lockVars, audioVars, keyboardVars, calls, appVars>>

\* _worker_loop on thread t: recognition is over, the callback is made
WorkerRecognize(t) ==
    /\ worker.threads[t].pc = "recognizing"
    /\ \E recognition \in Recognitions(worker) :
         LET r == ProcessItem(worker, t, recognition)
         IN  /\ worker' = r.worker
             /\ called' = r.called
             /\ logged' = r.logged
             /\ signals' = IF app.initialized
                           THEN signals \o EmittedSignals(r.called)
                           ELSE signals
    /\ UNCHANGED <<hkVars, listenerVars, lockVars, audioVars, keyboardVars, calls, app, cbt, caps>>

\* _worker_loop on thread t: "while self._running" is false, the thread ends
WorkerExit(t) ==
    /\ ~worker.running
    /\ worker.threads[t].pc = "idle"
    /\ worker' = [worker EXCEPT !.threads[t] = WorkerThreadNone]
    /\ called' = <<>>
    /\ logged' = <<>>
    /\ UNCHANGED <<hkVars, listenerVars, lockVars, audioVars, keyboardVars, calls, appVars>>

\* ---- actions of a client of the worker alone ----

\* the client's call c is the latest of its last two calls
ClientCalls(c) ==
    calls' = IF calls = <<>> THEN <<c>> ELSE <<calls[Len(calls)], c>>

\* a thread can be started
CanStart(w) ==
    w.running \/ LiveThreads(w) # WorkerThreadIds

\* the join of stop() can end: the thread joined has left the loop, or the
\* 2 s are over, which a thread that has just taken an item does not need to
\* compare it
JoinEnds(w) ==
    w.worker_thread # 0 => w.threads[w.worker_thread].pc # "got"

WorkerStart ==
    /\ CanStart(worker)
    /\ worker' = WorkerStartHandler(worker)
    /\ ClientCalls("start")
    /\ called' = <<>>
    /\ logged' = <<>>
    /\ UNCHANGED <<hkVars, listenerVars, lockVars, audioVars, keyboardVars, appVars>>

WorkerStop ==
    /\ JoinEnds(worker)
    /\ worker' = WorkerStopHandler(worker)
    /\ ClientCalls("stop")
    /\ called' = <<>>
    /\ logged' = <<>>
    /\ UNCHANGED <<hkVars, listenerVars, lockVars, audioVars, keyboardVars, appVars>>

WorkerRestart ==
    /\ JoinEnds(worker)
    /\ CanStart(WorkerStopHandler(worker))
    /\ worker' = WorkerRestartHandler(worker)
    /\ ClientCalls("restart")
    /\ called' = <<>>
    /\ logged' = <<>>
    /\ UNCHANGED <<hkVars, listenerVars, lockVars, audioVars, keyboardVars, appVars>>

StartSession ==
    /\ worker.generation < MaxGeneration
    /\ worker' = StartSessionHandler(worker)
    /\ ClientCalls("start_session")
    /\ called' = <<>>
    /\ logged' = <<>>
    /\ UNCHANGED <<hkVars, listenerVars, lockVars, audioVars, keyboardVars, appVars>>

ProcessAudio(audio_data) ==
    /\ Len(worker.segment_queue) < MaxQueued
    /\ worker' = ProcessAudioHandler(worker, audio_data)
    /\ ClientCalls("process_audio")
    /\ called' = <<>>
    /\ logged' = <<>>
    /\ UNCHANGED <<hkVars, listenerVars, lockVars, audioVars, keyboardVars, appVars>>

PushSegment(segment) ==
    /\ Len(worker.segment_queue) < MaxQueued
    /\ Len(worker.current_session_segments) < MaxSegments
    /\ worker' = PushSegmentHandler(worker, segment)
    /\ ClientCalls("push_segment")
    /\ called' = <<>>
    /\ logged' = <<>>
    /\ UNCHANGED <<hkVars, listenerVars, lockVars, audioVars, keyboardVars, appVars>>

FinalizeSession ==
    /\ Len(worker.segment_queue) < MaxQueued
    /\ worker' = FinalizeSessionHandler(worker)
    /\ ClientCalls("finalize_session")
    /\ called' = <<>>
    /\ logged' = <<>>
    /\ UNCHANGED <<hkVars, listenerVars, lockVars, audioVars, keyboardVars, appVars>>

(***************************************************************************)
(* FastVoiceApp and AudioCapture                                           *)
(***************************************************************************)

\* AppState
AppState_IDLE == "idle"
AppState_VOICE_RECORDING == "voice_recording"
AppState_TRANSLATE_RECORDING == "translate_recording"
AppState_FINALIZING == "finalizing"

\* the two kinds of session and the state in which each records
Modes == {"voice", "translate"}
RecordingState(mode) ==
    IF mode = "voice" THEN AppState_VOICE_RECORDING
                      ELSE AppState_TRANSLATE_RECORDING

\* messages of _on_voice_press / _on_translate_press and _finalize_recording
LOG_START_REJECTED == "state does not allow a recording to start"
LOG_ALREADY_IDLE == "finalize: already idle"
LOG_ALREADY_FINALIZING == "finalize: already finalizing"
LOG_NO_AUDIO == "finalize: nothing recorded"
LOG_TASK_SUBMITTED == "finalize: ASR task submitted"

\* the AudioCapture objects the application creates, in order
CaptureIds == 1..MaxCaptures

\* FastVoiceApp.__init__; capture is self._current_audio_capture (0: None)
FastVoiceAppInit ==
    [ initialized |-> FALSE,
      state |-> AppState_IDLE,
      capture |-> 0,
      translate |-> FALSE ]

\* the thread of the hotkey manager that runs the callbacks, one at a time:
\* held is the session kind whose key the hotkey manager has down, pc where
\* the callback stands, the rest are the locals of _finalize_recording
CallbackThreadInit ==
    [ held |-> "none",
      pc |-> "idle",
      mode |-> "none",
      force |-> FALSE,
      old_state |-> AppState_IDLE,
      capture |-> 0,
      audio_data |-> EMPTY_AUDIO ]

\* an AudioCapture that has not been created; pc is where its monitor
\* thread stands, old_state the local of the monitor's _finalize_recording,
\* submitted counts the ASR tasks enqueued with this capture's audio
AudioCaptureNone ==
    [ is_recording |-> FALSE,
      has_audio |-> FALSE,
      pc |-> "none",
      old_state |-> AppState_IDLE,
      submitted |-> 0 ]

\* AppTransitionState that lets a recording start in any state
AppTransitionState_Always(a, new_state) ==
    [app |-> [a EXCEPT !.state = new_state], ok |-> TRUE]

\* FastVoiceApp._transition_state
AppTransitionState(a, new_state) ==
    IF /\ new_state \in {AppState_VOICE_RECORDING, AppState_TRANSLATE_RECORDING}
       /\ a.state # AppState_IDLE
    THEN [app |-> a, ok |-> FALSE]
    ELSE [app |-> [a EXCEPT !.state = new_state], ok |-> TRUE]

\* _finalize_recording, the part under self._state_lock
FinalizeEnter(a, force) ==
    IF ~force /\ a.state = AppState_IDLE
    THEN [app |-> a, proceed |-> FALSE, logged |-> <<LOG_ALREADY_IDLE>>]
    ELSE IF /\ a.state \notin {AppState_VOICE_RECORDING,
                               AppState_TRANSLATE_RECORDING}
            /\ (a.state = AppState_FINALIZING \/ ~force)
    THEN [app |-> a, proceed |-> FALSE, logged |-> <<LOG_ALREADY_FINALIZING>>]
    ELSE [app |-> [a EXCEPT !.state = AppState_FINALIZING],
          proceed |-> TRUE, logged |-> <<>>]

\* _finalize_recording: the audio is handed to the worker, or the state goes
\* back to IDLE when there is none
FinalizeSubmit(a, w, audio_data, old_state) ==
    IF audio_data # EMPTY_AUDIO
    THEN [app |-> [a EXCEPT !.translate =
                       (old_state = AppState_TRANSLATE_RECORDING)],
          worker |-> ProcessAudioHandler(w, audio_data),
          logged |-> <<LOG_TASK_SUBMITTED>>]
    ELSE [app |-> [a EXCEPT !.state = AppState_IDLE],
          worker |-> w,
          logged |-> <<LOG_NO_AUDIO>>]

\* the count of ASR tasks enqueued per capture, after a submit step
Submitted(cs, w1, w2, audio_data) ==
    IF audio_data # EMPTY_AUDIO /\ Len(w2.segment_queue) > Len(w1.segment_queue)
    THEN [cs EXCEPT ![audio_data].submitted = @ + 1]
    ELSE cs

\* _return_to_idle
ReturnToIdle(a) ==
    IF a.state = AppState_FINALIZING
    THEN [a EXCEPT !.state = AppState_IDLE]
    ELSE a

\* AudioCapture.stop_recording from the copy of the buffer on: the WAV data
\* (here the capture's number), or None when the buffer is empty
StoppedAudio(cs, c) ==
    IF cs[c].has_audio THEN c ELSE EMPTY_AUDIO


\* ---- actions of the application ----

\* initialize(): the worker is started and warmed up, the hotkey callbacks
\* are registered
AppInitialize ==
    /\ ~app.initialized
    /\ app' = [app EXCEPT !.initialized = TRUE]
    /\ worker' = WarmupHandler(WorkerStartHandler(worker))
    /\ called' = <<>>
    /\ logged' = <<>>
    /\ UNCHANGED <<hkVars, listenerVars, lockVars, audioVars, keyboardVars, calls, cbt, caps, signals>>

\* the hotkey manager triggers the press callback of a session kind:
\* _on_voice_press / _on_translate_press up to the test of the state
HkPress(mode) ==
    /\ app.initialized
    /\ cbt.pc = "idle"
    /\ \E c \in CaptureIds : caps[c].pc = "none"
    /\ LET t == AppTransitionState(app, RecordingState(mode))
       IN  /\ app' = t.app
           /\ cbt' = [cbt EXCEPT !.held = mode,
                                 !.pc = IF t.ok THEN "press" ELSE "idle",
                                 !.mode = mode]
           /\ logged' = IF t.ok THEN <<>> ELSE <<LOG_START_REJECTED>>
    /\ called' = <<>>
    /\ UNCHANGED <<hkVars, listenerVars, lockVars, audioVars, keyboardVars, worker, calls, caps, signals>>

\* _on_voice_press / _on_translate_press after the state has changed:
\* start_session(), a new AudioCapture, start_recording() with its monitor
HkPressStart ==
    /\ cbt.pc = "press"
    /\ LET c == CHOOSE c \in CaptureIds :
                   caps[c].pc = "none" /\ \A d \in 1..(c - 1) : caps[d].pc # "none"
       IN  /\ \E has_audio \in BOOLEAN :
                caps' = [caps EXCEPT ![c] = [AudioCaptureNone EXCEPT
                                               !.is_recording = TRUE,
                                               !.has_audio = has_audio,
                                               !.pc = "watch"]]
           /\ app' = [app EXCEPT !.capture = c]
    /\ worker' = StartSessionHandler(worker)
    /\ cbt' = [cbt EXCEPT !.pc = "idle"]
    /\ called' = <<>>
    /\ logged' = <<>>
    /\ UNCHANGED <<hkVars, listenerVars, lockVars, audioVars, keyboardVars, calls, signals>>

\* the hotkey manager triggers the release callback: _on_voice_release /
\* _on_translate_release up to the call of _finalize_recording
HkRelease(mode) ==
    /\ cbt.pc = "idle"
    /\ cbt.held = mode
    /\ LET matches == app.state = RecordingState(mode)
           recording == app.capture # 0 /\ caps[app.capture].is_recording
       IN  cbt' = [cbt EXCEPT !.held = "none",
                              !.pc = IF matches \/ recording THEN "enter"
                                                             ELSE "idle",
                              !.mode = mode,
                              !.force = ~matches,
                              !.audio_data = EMPTY_AUDIO]
    /\ called' = <<>>
    /\ logged' = <<>>
    /\ UNCHANGED <<hkVars, listenerVars, lockVars, audioVars, keyboardVars, worker, calls, app, caps, signals>>

\* the hotkey manager resets its state while the key is down (watchdog,
\* clear_pressed_keys): no release callback will come
HkResetWhileHeld ==
    /\ cbt.pc = "idle"
    /\ cbt.held # "none"
    /\ cbt' = [cbt EXCEPT !.held = "none"]
    /\ called' = <<>>
    /\ logged' = <<>>
    /\ UNCHANGED <<hkVars, listenerVars, lockVars, audioVars, keyboardVars, worker, calls, app, caps, signals>>

\* _finalize_recording called by the release callback: the locked part
HkFinalizeEnter ==
    /\ cbt.pc = "enter"
    /\ LET f == FinalizeEnter(app, cbt.force)
       IN  /\ app' = f.app
           /\ cbt' = [cbt EXCEPT !.pc = IF f.proceed THEN "stop" ELSE "idle",
                                 !.old_state = app.state]
           /\ logged' = f.logged
    /\ called' = <<>>
    /\ UNCHANGED <<hkVars, listenerVars, lockVars, audioVars, keyboardVars, worker, calls, caps, signals>>

\* _finalize_recording: self._current_audio_capture.stop_recording() up to
\* its test of _is_recording
HkStopRecording ==
    /\ cbt.pc = "stop"
    /\ LET c == app.capture
       IN  cbt' = IF c # 0 /\ caps[c].is_recording
                  THEN [cbt EXCEPT !.pc = "copy", !.capture = c]
                  ELSE [cbt EXCEPT !.pc = "submit", !.audio_data = EMPTY_AUDIO]
    /\ called' = <<>>
    /\ logged' = <<>>
    /\ UNCHANGED <<hkVars, listenerVars, lockVars, audioVars, keyboardVars, worker, calls, app, caps, signals>>

\* stop_recording from the copy of the buffer to its return
HkStopCopy ==
    /\ cbt.pc = "copy"
    /\ caps' = [caps EXCEPT ![cbt.capture].is_recording = FALSE]
    /\ cbt' = [cbt EXCEPT !.pc = "submit",
                          !.audio_data = StoppedAudio(caps, cbt.capture)]
    /\ called' = <<>>
    /\ logged' = <<>>
    /\ UNCHANGED <<hkVars, listenerVars, lockVars, audioVars, keyboardVars, worker, calls, app, signals>>

\* _finalize_recording: process_audio(audio_data), or back to IDLE
HkSubmit ==
    /\ cbt.pc = "submit"
    /\ LET f == FinalizeSubmit(app, worker, cbt.audio_data, cbt.old_state)
       IN  /\ app' = f.app
           /\ worker' = f.worker
           /\ logged' = f.logged
           /\ caps' = Submitted(caps, worker, f.worker, cbt.audio_data)
    /\ cbt' = [cbt EXCEPT !.pc = "clean"]
    /\ called' = <<>>
    /\ UNCHANGED <<hkVars, listenerVars, lockVars, audioVars, keyboardVars, calls, signals>>

\* _finalize_recording: self._current_audio_capture = None
HkClean ==
    /\ cbt.pc = "clean"
    /\ app' = [app EXCEPT !.capture = 0]
    /\ cbt' = [cbt EXCEPT !.pc = "idle"]
    /\ called' = <<>>
    /\ logged' = <<>>
    /\ UNCHANGED <<hkVars, listenerVars, lockVars, audioVars, keyboardVars, worker, calls, caps, signals>>

\* ---- actions of the monitor thread of capture c ----

\* monitor(): the maximum recording duration is over while the capture is
\* recording; stop_recording() is called and passes its test of _is_recording
MonitorTimeout(c) ==
    /\ caps[c].pc = "watch"
    /\ caps[c].is_recording
    /\ caps' = [caps EXCEPT ![c].pc = "copy"]
    /\ called' = <<>>
    /\ logged' = <<>>
    /\ UNCHANGED <<hkVars, listenerVars, lockVars, audioVars, keyboardVars, worker, calls, app, cbt, signals>>

\* monitor(): the loop ends because the capture no longer records
MonitorExit(c) ==
    /\ caps[c].pc = "watch"
    /\ ~caps[c].is_recording
    /\ caps' = [caps EXCEPT ![c].pc = "done"]
    /\ called' = <<>>
    /\ logged' = <<>>
    /\ UNCHANGED <<hkVars, listenerVars, lockVars, audioVars, keyboardVars, worker, calls, app, cbt, signals>>

\* stop_recording from the copy of the buffer to its return; on_auto_stop is
\* called only with audio
MonitorStopCopy(c) ==
    /\ caps[c].pc = "copy"
    /\ caps' = [caps EXCEPT ![c].is_recording = FALSE,
                            ![c].pc = IF StoppedAudio(caps, c) # EMPTY_AUDIO
                                      THEN "enter" ELSE "done"]
    /\ called' = <<>>
    /\ logged' = <<>>
    /\ UNCHANGED <<hkVars, listenerVars, lockVars, audioVars, keyboardVars, worker, calls, app, cbt, signals>>

\* on_auto_stop(audio_data): _finalize_recording(audio_data), the locked part
MonitorFinalizeEnter(c) ==
    /\ caps[c].pc = "enter"
    /\ LET f == FinalizeEnter(app, FALSE)
       IN  /\ app' = f.app
           /\ caps' = [caps EXCEPT ![c].pc = IF f.proceed THEN "submit"
                                                         ELSE "done",
                                   ![c].old_state = app.state]
           /\ logged' = f.logged
    /\ called' = <<>>
    /\ UNCHANGED <<hkVars, listenerVars, lockVars, audioVars, keyboardVars, worker, calls, cbt, signals>>

\* _finalize_recording: process_audio(audio_data)
MonitorSubmit(c) ==
    /\ caps[c].pc = "submit"
    /\ LET f == FinalizeSubmit(app, worker, c, caps[c].old_state)
       IN  /\ app' = f.app
           /\ worker' = f.worker
           /\ logged' = f.logged
           /\ caps' = [Submitted(caps, worker, f.worker, c) EXCEPT
                          ![c].pc = "clean"]
    /\ called' = <<>>
    /\ UNCHANGED <<hkVars, listenerVars, lockVars, audioVars, keyboardVars, calls, cbt, signals>>

\* _finalize_recording: self._current_audio_capture = None
MonitorClean(c) ==
    /\ caps[c].pc = "clean"
    /\ app' = [app EXCEPT !.capture = 0]
    /\ caps' = [caps EXCEPT ![c].pc = "done"]
    /\ called' = <<>>
    /\ logged' = <<>>
    /\ UNCHANGED <<hkVars, listenerVars, lockVars, audioVars, keyboardVars, worker, calls, cbt, signals>>

\* ---- action of the main thread ----

\* the Qt event loop delivers a signal: _handle_asr_result_on_main_thread
\* (which ends with _return_to_idle) or _return_to_idle
MainDelivers ==
    /\ signals # <<>>
    /\ signals' = Tail(signals)
    /\ app' = ReturnToIdle(app)
    /\ called' = <<>>
    /\ logged' = <<>>
    /\ UNCHANGED <<hkVars, listenerVars, lockVars, audioVars, keyboardVars, worker, calls, cbt, caps>>

(***************************************************************************)
(* The keyboard listener: start, stop, health check, restart, recover.     *)
(* The stamps of the listener are in seconds, the period of watchdog_loop. *)
(* While the state machine is idle and no restart is under way, the        *)
(* iterations of watchdog_loop before the next health check do nothing,    *)
(* and they pass in at most two steps.  start() and stop() come in a       *)
(* second in which the health check is made or was just made, a key-down   *)
(* in such a second or in the latest second from which a state lasts until *)
(* the next health check; a key-up, recover() and the death of a listener  *)
(* come in any second that is stepped through.  Key events are those of    *)
(* the voice key.                                                          *)
(***************************************************************************)

LISTENER_HEALTH_CHECK_INTERVAL == 30

\* is_watchdog_alive: a heartbeat less than 2.0 s old
WATCHDOG_HEARTBEAT_S == 2

\* threads in watchdog_loop at one time
MaxWatchdogs == 2

\* watchdog_loop: is_silent_dead = time_since_last_key_event > 180
SILENT_DEAD_S == 180

\* get_listener_status: seconds_since_last_key_event > 300
STATUS_SILENT_S == 300

\* _restart_listener: max_retries
MAX_RETRIES == 3

\* saturation points of the stamps of the listener
KeyEventCap == STATUS_SILENT_S + 1
ListenerCheckCap == LISTENER_HEALTH_CHECK_INTERVAL + 1

\* the key whose events the listener delivers here
VoiceKey == "alt_l"

\* messages of watchdog_loop and _restart_listener
LOG_LISTENER_DEAD == "listener thread dead, restarting"
LOG_LISTENER_SILENT == "listener silent, restarting"
LOG_LISTENER_RESTARTED == "listener restarted"
LOG_LISTENER_RESTART_FAILED == "listener restart failed"

\* the threads that run _restart_listener: the thread watchdog_loop spawns
\* and the main thread (recover)
RestartThreads == {"ListenerRestart", "MainThread"}

ListenerIds == 1..MaxListeners

\* a thread that is not in _restart_listener
RestartIdle == [pc |-> "idle", attempt |-> 0, slept |-> FALSE]

\* the listener side of HotkeyManager.__init__: listener is self._listener
\* (0: None), os the keyboard listeners ever created ("unborn": not yet),
\* check what the last iteration of watchdog_loop found in its health check,
\* watchdogs the threads that are in watchdog_loop, heartbeat the age of
\* self._watchdog_last_heartbeat (NONE: the attribute is not there),
\* start_failed whether the last start() found its listener not alive,
\* restart_failed whether the last _restart_listener to end returned False
\* and none has been entered since
ListenerInit ==
    [ listener |-> 0,
      os |-> [i \in ListenerIds |-> "unborn"],
      last_key_event_time |-> 0,
      last_listener_check |-> 0,
      check |-> "none",
      watchdogs |-> 0,
      heartbeat |-> NONE,
      start_failed |-> FALSE,
      restart_failed |-> FALSE,
      restart |-> [t \in RestartThreads |-> RestartIdle] ]

\* listeners that can still be created, beyond those the restarts under way
\* are about to create
FreeListeners(l) ==
    Cardinality({i \in ListenerIds : l.os[i] = "unborn"})
      - Cardinality({t \in RestartThreads : l.restart[t].pc \in {"stop", "create"}})

\* the listener created next
NewListener(l) ==
    CHOOSE i \in ListenerIds :
        l.os[i] = "unborn" /\ \A j \in 1..(i - 1) : l.os[j] # "unborn"

\* self._listener.is_alive(), False when there is no listener
IsAlive(l) ==
    l.listener # 0 /\ l.os[l.listener] = "running"

\* hk.listener follows self._listener
ListenerField(l) ==
    IF l.listener = 0 THEN "none"
    ELSE IF IsAlive(l) THEN "alive" ELSE "dead"

\* if self._listener: self._listener.stop(); self._listener = None
StopListenerHandler(l) ==
    IF l.listener = 0 THEN l
    ELSE [l EXCEPT !.os[l.listener] = IF @ = "running" THEN "stopped" ELSE @,
                   !.listener = 0]

\* self._listener = KeyboardListener(...); self._listener.start()
CreateListenerHandler(l, starts) ==
    [l EXCEPT !.listener = NewListener(l),
              !.os[NewListener(l)] = IF starts THEN "running" ELSE "dead"]

\* SilentDead with the threshold of the watchdog
SilentDead_Short(l) ==
    l.last_key_event_time >= WATCHDOG_TIMEOUT_S

\* watchdog_loop: is_silent_dead
SilentDead(l) ==
    l.last_key_event_time > SILENT_DEAD_S

\* watchdog_loop: the health check of the listener, when it is due
HealthCheck(l) ==
    IF l.last_listener_check <= LISTENER_HEALTH_CHECK_INTERVAL THEN "none"
    ELSE IF l.listener = 0 THEN "no listener"
    ELSE IF ~IsAlive(l) THEN "dead"
    ELSE IF SilentDead(l) THEN "silent"
    ELSE "alive"

\* _start_watchdog, the side of the threads: one more thread is in
\* watchdog_loop, with a last_listener_check of its own.  The threads that
\* were in the loop are asleep in time.sleep(1) and find _watchdog_running
\* True when they wake; of these only the number is kept
StartWatchdogHandler(l) ==
    [l EXCEPT !.watchdogs = @ + 1,
              !.heartbeat = 0,
              !.last_listener_check = 0]

\* is_watchdog_alive
IsWatchdogAlive(l) ==
    l.heartbeat # NONE /\ l.heartbeat < WATCHDOG_HEARTBEAT_S

\* a thread enters _restart_listener
EnterRestart(l, t) ==
    [l EXCEPT !.restart[t] = [pc |-> "stop", attempt |-> 1, slept |-> FALSE],
              !.restart_failed = FALSE]

\* one iteration of watchdog_loop, the health check of the listener
WatchdogHealthCheck(l) ==
    LET c == HealthCheck(l)
        l1 == [l EXCEPT !.check = c,
                        !.heartbeat = 0,
                        !.last_listener_check = IF c = "none" THEN @ ELSE 0]
    IN  IF c \in {"dead", "silent"}
        THEN [lsn |-> EnterRestart(l1, "ListenerRestart"),
              logged |-> IF c = "dead" THEN <<LOG_LISTENER_DEAD>>
                                       ELSE <<LOG_LISTENER_SILENT>>]
        ELSE [lsn |-> l1, logged |-> <<>>]

\* get_listener_status as recover reads it: the thread is not alive, or
\* the health is "silent"
StatusAbnormal(l) ==
    ~IsAlive(l) \/ l.last_key_event_time > STATUS_SILENT_S

\* _restart_listener: the old listener is stopped
RestartStopHandler(l, t) ==
    [StopListenerHandler(l) EXCEPT !.restart[t].pc = "create",
                                   !.restart[t].slept = FALSE]

\* _restart_listener: the new listener is created and started
RestartCreateHandler(l, t, starts) ==
    [CreateListenerHandler(l, starts) EXCEPT !.restart[t].pc = "check",
                                             !.restart[t].slept = FALSE]

\* _restart_listener: is_alive is read and the attempt ends
RestartCheckHandler(l, t) ==
    IF IsAlive(l)
    THEN [lsn |-> [l EXCEPT !.restart[t] = RestartIdle,
                            !.restart_failed = FALSE],
          logged |-> <<LOG_LISTENER_RESTARTED>>]
    ELSE IF l.restart[t].attempt < MAX_RETRIES
    THEN [lsn |-> [l EXCEPT !.restart[t].pc = "stop",
                            !.restart[t].attempt = @ + 1,
                            !.restart[t].slept = FALSE],
          logged |-> <<>>]
    ELSE [lsn |-> [l EXCEPT !.restart[t] = RestartIdle,
                            !.restart_failed = TRUE],
          logged |-> <<LOG_LISTENER_RESTART_FAILED>>]

\* ---- actions of the listener specification ----

\* the main thread is not in recover(): start(), stop() and recover() are
\* calls of the main thread
MainThreadFree ==
    lsn.restart["MainThread"].pc = "idle"

\* the latest second before a health check from which a state that begins
\* is still there when the check is made
LastSecondBeforeCheck ==
    ListenerCheckCap - WATCHDOG_TIMEOUT_S

\* the second of a health check, before or after the check is made
AtHealthCheck ==
    \/ ~hk.watchdog_running
    \/ lsn.last_listener_check \in {0, ListenerCheckCap}

\* the seconds in which a key-down comes
AtKeyDown ==
    \/ AtHealthCheck
    \/ lsn.last_listener_check = LastSecondBeforeCheck

\* a step of the listener side that leaves the state machine alone
ListenerStep(h, l, messages) ==
    /\ hk' = [h EXCEPT !.listener = ListenerField(l)]
    /\ lsn' = l
    /\ fired' = <<>>
    /\ logged' = messages
    /\ UNCHANGED <<keydown_age, keydowns, workerVars, calls, appVars, lockVars, audioVars, keyboardVars>>

\* a step of the state machine on the listener side
ListenerHotkeyStep(r, l) ==
    /\ HotkeyStep(r)
    /\ lsn' = [l EXCEPT !.check = "none"]

\* start(): the watchdog is started, the listener created and started; a
\* listener that does not come up stays in self._listener
ListenerStart ==
    /\ MainThreadFree
    /\ AtHealthCheck
    /\ lsn.listener = 0
    /\ FreeListeners(lsn) >= 1
    /\ lsn.watchdogs < MaxWatchdogs
    /\ \E starts \in BOOLEAN :
         ListenerStep([hk EXCEPT !.watchdog_running = TRUE,
                                 !.last_activity_time = 0],
                      [CreateListenerHandler(StartWatchdogHandler(lsn), starts)
                          EXCEPT !.check = "none", !.start_failed = ~starts,
                                 !.restart_failed = FALSE],
                      <<>>)

\* stop()
ListenerStop ==
    /\ MainThreadFree
    /\ AtHealthCheck
    /\ hk.watchdog_running \/ lsn.listener # 0
    /\ ListenerStep([hk EXCEPT !.watchdog_running = FALSE],
                    [StopListenerHandler(lsn) EXCEPT !.check = "none",
                                                     !.start_failed = FALSE,
                                                     !.restart_failed = FALSE],
                    <<>>)

\* the thread of a running listener dies
ListenerDies ==
    \E i \in ListenerIds :
        /\ lsn.os[i] = "running"
        /\ ListenerStep(hk, [lsn EXCEPT !.os[i] = "dead", !.check = "none"],
                        <<>>)

\* a running listener delivers a key-down of the voice key
ListenerPress ==
    /\ AtKeyDown
    /\ \E i \in ListenerIds : lsn.os[i] = "running"
    /\ ListenerHotkeyStep(OnPressHandler(hk, VoiceKey),
                          [lsn EXCEPT !.last_key_event_time = 0])
    /\ keydown_age' = [keydown_age EXCEPT ![VoiceKey] = 0]
    /\ UNCHANGED keydowns

\* a running listener delivers a key-up of the voice key
ListenerRelease ==
    /\ \E i \in ListenerIds : lsn.os[i] = "running"
    /\ VoiceKey \in hk.pressed_keys
    /\ ListenerHotkeyStep(OnReleaseHandler(hk, VoiceKey),
                          [lsn EXCEPT !.last_key_event_time = 0])
    /\ UNCHANGED <<keydown_age, keydowns>>

\* self._tail_timer runs, within the second in which it was started
ListenerTailTimerFires ==
    \E t \in hk.tail_timer :
        /\ ListenerHotkeyStep(TailTimerHandler(hk, t), lsn)
        /\ UNCHANGED <<keydown_age, keydowns>>

\* one iteration of watchdog_loop after time.sleep(1): the health check of
\* the listener, then the check of the state
WatchdogIteration ==
    /\ hk.watchdog_running
    /\ ~hk.watchdog_woke
    /\ LET c == WatchdogHealthCheck(lsn)
           r == WatchdogCheck(hk)
       IN  /\ HotkeyStep(Outcome([r.hk EXCEPT !.watchdog_woke = TRUE],
                                 r.fired, c.logged \o r.logged))
           /\ lsn' = c.lsn
    /\ UNCHANGED <<keydown_age, keydowns>>

\* recover(), on the main thread: the watchdog is started again when it does
\* not run, the listener is restarted when its status is abnormal
Recover ==
    /\ MainThreadFree
    /\ ~IsWatchdogAlive(lsn) \/ StatusAbnormal(lsn)
    /\ StatusAbnormal(lsn) => FreeListeners(lsn) >= 1
    /\ ~IsWatchdogAlive(lsn) => lsn.watchdogs < MaxWatchdogs
    /\ ListenerStep(
         IF IsWatchdogAlive(lsn) THEN hk
         ELSE [hk EXCEPT !.watchdog_running = TRUE, !.last_activity_time = 0],
         LET l1 == [(IF IsWatchdogAlive(lsn) THEN lsn
                     ELSE StartWatchdogHandler(lsn)) EXCEPT !.check = "none"]
         IN  IF StatusAbnormal(lsn) THEN EnterRestart(l1, "MainThread") ELSE l1,
         <<>>)

\* restart_watchdog(), on the main thread: _stop_watchdog, _start_watchdog
RestartWatchdog ==
    /\ MainThreadFree
    /\ AtHealthCheck
    /\ lsn.watchdogs < MaxWatchdogs
    /\ ListenerStep([hk EXCEPT !.watchdog_running = TRUE,
                               !.last_activity_time = 0],
                    [StartWatchdogHandler(lsn) EXCEPT !.check = "none"],
                    <<>>)

\* _restart_listener on thread t: the old listener is stopped
RestartStop(t) ==
    /\ lsn.restart[t].pc = "stop"
    /\ ListenerStep(hk, [RestartStopHandler(lsn, t) EXCEPT !.check = "none"],
                    <<>>)

\* _restart_listener on thread t, after time.sleep(retry_delay): the new
\* listener is created and started; it may not come up
RestartCreate(t) ==
    /\ lsn.restart[t].pc = "create"
    /\ lsn.restart[t].slept
    /\ \E i \in ListenerIds : lsn.os[i] = "unborn"
    /\ \E starts \in BOOLEAN :
         ListenerStep(hk, [RestartCreateHandler(lsn, t, starts) EXCEPT
                              !.check = "none"], <<>>)

\* _restart_listener on thread t, after time.sleep(0.5): is_alive is read
RestartCheck(t) ==
    /\ lsn.restart[t].pc = "check"
    /\ LET c == RestartCheckHandler(lsn, t)
       IN  ListenerStep(hk, [c.lsn EXCEPT !.check = "none"], c.logged)

\* nothing is under way: no thread is in _restart_listener and the watchdog
\* has no state to time out
Quiet ==
    /\ hk.watchdog_running => hk.state = IDLE
    /\ \A t \in RestartThreads : lsn.restart[t].pc = "idle"

\* the seconds that pass in one step: one, or when nothing is under way
\* those until the next health check or until the latest second before it
SleepSeconds ==
    IF ~Quiet THEN WATCHDOG_SLEEP_S
    ELSE IF ~hk.watchdog_running THEN ListenerCheckCap
    ELSE IF lsn.last_listener_check < LastSecondBeforeCheck
    THEN LastSecondBeforeCheck - lsn.last_listener_check
    ELSE ListenerCheckCap - lsn.last_listener_check

\* time passes.  The watchdog has made its iteration, the tail timer has
\* run, and a restart has gone on when its sleep is over.
TickSecond ==
    /\ hk.watchdog_running => hk.watchdog_woke
    /\ hk.tail_timer = {}
    /\ \A t \in RestartThreads :
         /\ lsn.restart[t].pc # "stop"
         /\ lsn.restart[t].pc \in {"create", "check"} => ~lsn.restart[t].slept
    /\ hk' = [hk EXCEPT
         !.last_keydown_time = [k \in Keys |-> DEBOUNCE_MS],
         !.last_activity_time =
            IF @ = NONE THEN NONE
            ELSE Min(@ + SleepSeconds * WATCHDOG_SLEEP_MS, ActivityCap),
         !.watchdog_woke = FALSE]
    /\ lsn' = [lsn EXCEPT
         !.last_key_event_time = Min(@ + SleepSeconds, KeyEventCap),
         !.last_listener_check =
            IF hk.watchdog_running THEN Min(@ + SleepSeconds, ListenerCheckCap)
            ELSE @,
         !.check = "none",
         !.watchdogs = IF hk.watchdog_running THEN @ ELSE 0,
         !.heartbeat =
            IF @ = NONE THEN NONE
            ELSE IF hk.watchdog_running THEN WATCHDOG_SLEEP_S
            ELSE Min(@ + SleepSeconds, WATCHDOG_HEARTBEAT_S),
         !.restart = [t \in RestartThreads |->
                        IF @[t].pc \in {"create", "check"}
                        THEN [@[t] EXCEPT !.slept = TRUE] ELSE @[t]]]
    /\ fired' = <<>>
    /\ logged' = <<>>
    /\ keydown_age' = [k \in Keys |-> DEBOUNCE_MS]
    /\ UNCHANGED <<keydowns, workerVars, calls, appVars, lockVars, audioVars, keyboardVars>>

(***************************************************************************)
(* The three mutexes and the threads that take them.  Each call is the     *)
(* sequence of acquisitions and releases its code makes, in order; what a  *)
(* call does between them is in the other specifications.                  *)
(***************************************************************************)

\* HotkeyManager._state_lock, FastVoiceApp._state_lock, ASRWorker._session_lock
HOTKEY_STATE_LOCK == "HotkeyManager._state_lock"
APP_STATE_LOCK == "FastVoiceApp._state_lock"
SESSION_LOCK == "ASRWorker._session_lock"

Locks == {HOTKEY_STATE_LOCK, APP_STATE_LOCK, SESSION_LOCK}

\* threading.RLock(): the two state locks
Reentrant == {HOTKEY_STATE_LOCK, APP_STATE_LOCK}

\* the thread of the listener, a timer thread, the watchdog, the monitor of
\* an AudioCapture, the thread of the worker, the main thread
LISTENER_THREAD == "pynput listener"
TIMER_THREAD == "threading.Timer"
WATCHDOG_THREAD == "HotkeyWatchdog"
MONITOR_THREAD == "timeout monitor"
WORKER_THREAD == "ASRWorker"
MAIN_THREAD == "main"

Threads == {LISTENER_THREAD, TIMER_THREAD, WATCHDOG_THREAD, MONITOR_THREAD,
            WORKER_THREAD, MAIN_THREAD}

NoThread == "none"

\* "with lock:" entered and left
Acquire(l) == <<"acquire", l>>
Release(l) == <<"release", l>>
With(l, body) == <<Acquire(l)>> \o body \o <<Release(l)>>

\* HotkeyManager._transition_state: with self._state_lock
HkTransitionLocks == With(HOTKEY_STATE_LOCK, <<>>)

\* FastVoiceApp._transition_state and _get_state: with self._state_lock
AppStateLocks == With(APP_STATE_LOCK, <<>>)

\* ASRWorker.start_session, process_audio: with self._session_lock
SessionLocks == With(SESSION_LOCK, <<>>)

\* _on_voice_press, _on_translate_press: the start is accepted, or it is
\* turned down and the state is read for the message
PressCallbackLocks ==
    { AppStateLocks \o SessionLocks,
      AppStateLocks \o AppStateLocks }

\* _finalize_recording: it returns under the lock, or it goes on to
\* process_audio, or, with no audio, to IDLE; then _get_state for the message
FinalizeLocks ==
    { AppStateLocks,
      AppStateLocks \o SessionLocks \o AppStateLocks,
      AppStateLocks \o AppStateLocks \o AppStateLocks }

\* _on_voice_release, _on_translate_release: _get_state, then
\* _finalize_recording or nothing
ReleaseCallbackLocks ==
    {AppStateLocks} \cup {AppStateLocks \o f : f \in FinalizeLocks}

\* _on_press: a key-down that starts the voice recording, with the callback
\* inside the lock; a key-down that makes a transition only; one that makes
\* none.  _on_release: with or without a transition
ListenerCalls ==
    {With(HOTKEY_STATE_LOCK, HkTransitionLocks \o c) : c \in PressCallbackLocks}
      \cup {With(HOTKEY_STATE_LOCK, HkTransitionLocks),
            With(HOTKEY_STATE_LOCK, <<>>)}

\* the closures of the timers: first_press_timeout and double_click_timeout
\* (reset or nothing), check_long_press with the press callback, the tail
\* closures with the release callback
TimerCalls ==
    {With(HOTKEY_STATE_LOCK, <<>>)}
      \cup {With(HOTKEY_STATE_LOCK, HkTransitionLocks \o c) :
              c \in PressCallbackLocks \cup ReleaseCallbackLocks}

\* watchdog_loop: the check of the state
WatchdogCalls == {With(HOTKEY_STATE_LOCK, <<>>)}

\* the monitor of AudioCapture: on_auto_stop, which is _finalize_recording
MonitorCalls == FinalizeLocks

\* _worker_loop: the generation is read
WorkerCalls == {SessionLocks}

\* MainThreadCalls with a call that takes the lock of the hotkeys inside the
\* lock of the application
MainThreadCalls_Nested ==
    {With(APP_STATE_LOCK, With(HOTKEY_STATE_LOCK, <<>>))}

\* the main thread: _return_to_idle and _get_state (shutdown), and
\* clear_pressed_keys called by show_settings
MainThreadCalls ==
    {AppStateLocks, With(HOTKEY_STATE_LOCK, <<>>)}

\* the calls of each thread
CallsOf(t) ==
    CASE t = LISTENER_THREAD -> ListenerCalls
      [] t = TIMER_THREAD -> TimerCalls
      [] t = WATCHDOG_THREAD -> WatchdogCalls
      [] t = MONITOR_THREAD -> MonitorCalls
      [] t = WORKER_THREAD -> WorkerCalls
      [] t = MAIN_THREAD -> MainThreadCalls

\* no lock is held and no thread is in a call: owner and depth of each
\* lock, and what each thread has still to do of its call
LocksInit ==
    [ owner |-> [l \in Locks |-> NoThread],
      depth |-> [l \in Locks |-> 0],
      todo |-> [t \in Threads |-> <<>>] ]

\* thread t is at an acquisition of l
AtAcquire(k, t, l) ==
    k.todo[t] # <<>> /\ Head(k.todo[t]) = Acquire(l)

\* l can be taken by t: it is free, or it is re-entrant and t has it
CanAcquire(k, t, l) ==
    \/ k.owner[l] = NoThread
    \/ k.owner[l] = t /\ l \in Reentrant

\* t waits for a lock that u holds
WaitsFor(k, t, u) ==
    \E l \in Locks :
        AtAcquire(k, t, l) /\ ~CanAcquire(k, t, l) /\ k.owner[l] = u

\* the locks t holds
HeldBy(k, t) ==
    {l \in Locks : k.owner[l] = t}

\* lock.acquire()
AcquireHandler(k, t, l) ==
    [k EXCEPT !.owner[l] = t, !.depth[l] = @ + 1, !.todo[t] = Tail(@)]

\* lock.release()
ReleaseHandler(k, t, l) ==
    [k EXCEPT !.owner[l] = IF k.depth[l] = 1 THEN NoThread ELSE t,
              !.depth[l] = @ - 1,
              !.todo[t] = Tail(@)]

\* ---- actions of the lock specification ----

\* thread t begins one of its calls
LockCall(t) ==
    /\ lk.todo[t] = <<>>
    /\ \E c \in CallsOf(t) : lk' = [lk EXCEPT !.todo[t] = c]
    /\ UNCHANGED <<hkVars, logged, workerVars, calls, appVars, listenerVars, audioVars, keyboardVars>>

\* thread t takes the lock it is at
LockAcquire(t) ==
    /\ \E l \in Locks :
         /\ AtAcquire(lk, t, l)
         /\ CanAcquire(lk, t, l)
         /\ lk' = AcquireHandler(lk, t, l)
    /\ UNCHANGED <<hkVars, logged, workerVars, calls, appVars, listenerVars, audioVars, keyboardVars>>

\* thread t leaves a "with" block
LockRelease(t) ==
    /\ \E l \in Locks :
         /\ lk.todo[t] # <<>>
         /\ Head(lk.todo[t]) = Release(l)
         /\ lk' = ReleaseHandler(lk, t, l)
    /\ UNCHANGED <<hkVars, logged, workerVars, calls, appVars, listenerVars, audioVars, keyboardVars>>

(***************************************************************************)
(* Audio capture: AudioCaptureThread, VadSegmenter, RecordingController    *)
(***************************************************************************)

\* VadSegmenter.__init__: silence_threshold_ms // FRAME_DURATION_MS of the
\* segmenter under study, two frames of 30 ms
silence_threshold_frames == 2

\* VadSegmenter.__init__: min_speech_duration_ms // FRAME_DURATION_MS of the
\* segmenter under study
min_speech_frames == 2

\* AudioCaptureThread.__init__: the buffer_maxlen the capture is built with
buffer_maxlen == 3

\* RecordingController._processing_loop: get_frames(max_frames=10)
MAX_FRAMES_PER_READ == 10

\* frames one stream delivers, frames one recording hands to the segmenter,
\* frames a test feeds to a segmenter of its own
MaxFrames == 5
MaxProcessed == 6
MaxFed == 6

\* a frame of audio: the n-th the stream delivered, speech or not
AudioFrame(n, speech) == [n |-> n, speech |-> speech]

\* process_frame and finalize return None when no segment is complete; a segment
\* returned is never empty
NoSegment == <<>>

\* VadSegmenter.__init__ and reset (the frame and segment statistics, which
\* only the log reads, are left out)
VadSegmenterInit ==
    [current_segment |-> <<>>,
     in_speech       |-> FALSE,
     silence_frames  |-> 0,
     speech_frames   |-> 0]

\* VadSegmenter._is_speech
IsSpeech(frame) == frame.speech

\* the speech frames of a segment
SpeechCount(segment) ==
    Cardinality({i \in 1..Len(segment) : IsSpeech(segment[i])})

\* VadSegmenter._finalize_segment without the minimum speech duration
FinalizeSegment_NoMinimum(v) ==
    IF v.current_segment = <<>>
    THEN [vad |-> v, ret |-> NoSegment]
    ELSE [vad |-> VadSegmenterInit, ret |-> v.current_segment]

\* VadSegmenter._finalize_segment
FinalizeSegment(v) ==
    IF v.current_segment = <<>>
    THEN [vad |-> v, ret |-> NoSegment]
    ELSE IF v.speech_frames < min_speech_frames
         THEN [vad |-> VadSegmenterInit, ret |-> NoSegment]
         ELSE [vad |-> VadSegmenterInit, ret |-> v.current_segment]

\* VadSegmenter.process_frame
ProcessFrame(v, frame) ==
    IF IsSpeech(frame)
    THEN [vad |-> [v EXCEPT !.in_speech = TRUE,
                            !.silence_frames = IF v.in_speech THEN @ ELSE 0,
                            !.current_segment = Append(@, frame),
                            !.speech_frames = @ + 1],
          ret |-> NoSegment]
    ELSE IF v.in_speech
         THEN LET w == [v EXCEPT !.silence_frames = @ + 1,
                                 !.current_segment = Append(@, frame)]
              IN  IF w.silence_frames >= silence_threshold_frames
                  THEN FinalizeSegment(w)
                  ELSE [vad |-> w, ret |-> NoSegment]
         ELSE [vad |-> v, ret |-> NoSegment]

\* VadSegmenter.finalize handing out whatever is buffered
Finalize_Unfiltered(v) ==
    IF v.current_segment # <<>> /\ v.speech_frames > 0
    THEN [vad |-> VadSegmenterInit, ret |-> v.current_segment]
    ELSE [vad |-> v, ret |-> NoSegment]

\* VadSegmenter.finalize
Finalize(v) ==
    IF v.current_segment # <<>> /\ v.speech_frames > 0
    THEN FinalizeSegment(v)
    ELSE [vad |-> v, ret |-> NoSegment]

\* a segmenter of its own and what a caller did with it: the frames fed since
\* construction, the segments it returned, and the last call
SegmenterInit ==
    [segmenter |-> VadSegmenterInit,
     fed       |-> <<>>,
     finalized |-> FALSE,
     emitted   |-> <<>>,
     last      |-> [op |-> "__init__", buffered |-> <<>>, ret |-> NoSegment]]

\* what a call of the segmenter leaves behind
SegmenterCall(s, op, r) ==
    [s EXCEPT !.segmenter = r.vad,
              !.emitted = IF r.ret # NoSegment THEN Append(@, r.ret) ELSE @,
              !.last = [op |-> op, buffered |-> s.segmenter.current_segment,
                        ret |-> r.ret]]

\* ---- actions of the segmenter specification ----

\* a caller constructs a segmenter
VadConstruct ==
    /\ vad # SegmenterInit
    /\ vad' = SegmenterInit
    /\ UNCHANGED <<hkVars, logged, workerVars, calls, appVars, listenerVars,
                   lockVars, audio, keyboardVars>>

\* a caller feeds the next frame
VadProcessFrame ==
    /\ Len(vad.fed) < MaxFed
    /\ \E speech \in BOOLEAN :
         LET frame == AudioFrame(Len(vad.fed) + 1, speech)
             s == [vad EXCEPT !.fed = Append(@, frame)]
         IN  vad' = SegmenterCall(s, "process_frame",
                                  ProcessFrame(vad.segmenter, frame))
    /\ UNCHANGED <<hkVars, logged, workerVars, calls, appVars, listenerVars,
                   lockVars, audio, keyboardVars>>

\* a caller forces the end of the segment
VadFinalize ==
    /\ vad' = SegmenterCall([vad EXCEPT !.finalized = TRUE], "finalize",
                            Finalize(vad.segmenter))
    /\ UNCHANGED <<hkVars, logged, workerVars, calls, appVars, listenerVars,
                   lockVars, audio, keyboardVars>>

\* AudioCaptureThread.__init__ and the RecordingController that owns it
Recording_IDLE == "idle"
Recording_RECORDING == "recording"
Recording_FINALIZING == "finalizing"

\* bound of the model: recordings started on one controller
MaxSessions == 2

\* the threads start() puts on _processing_loop, one per recording
LoopIds == 1..MaxSessions

\* RecordingController.__init__.  capture is whether self._capture is an
\* object; buffer, frames_captured and running are its fields.  session
\* counts the recordings started.  loops is where the thread of each
\* recording stands: "none" (not started, or ended), "loop" (in the loop
\* of _processing_loop), "orphan" (in the loop, reset() called since), or
\* "finalized" (at the end of _finalize, before the state is set).
\* delivered are the threads that have called on_recording_complete.
RecordingControllerInit ==
    [state           |-> Recording_IDLE,
     capture         |-> FALSE,
     buffer          |-> <<>>,
     frames_captured |-> 0,
     running         |-> FALSE,
     segmenter       |-> VadSegmenterInit,
     all_frames      |-> <<>>,
     segments        |-> <<>>,
     session         |-> 0,
     loops           |-> [s \in LoopIds |-> "none"],
     delivered       |-> {}]

\* deque.append with no maxlen
DequeAppend_Unbounded(buffer, frame) ==
    Append(buffer, frame)

\* deque(maxlen=buffer_maxlen).append: a full deque discards its left end
DequeAppend(buffer, frame) ==
    IF Len(buffer) >= buffer_maxlen
    THEN Append(Tail(buffer), frame)
    ELSE Append(buffer, frame)

\* AudioCaptureThread._audio_callback
AudioCallbackHandler(a, speech) ==
    [a EXCEPT !.buffer = DequeAppend(@, AudioFrame(a.frames_captured + 1, speech)),
              !.frames_captured = @ + 1]

\* AudioCaptureThread.get_frames: a copy of the newest max_frames frames; the
\* buffer keeps them
GetFrames(buffer, max_frames) ==
    IF max_frames # 0 /\ Len(buffer) > max_frames
    THEN SubSeq(buffer, Len(buffer) - max_frames + 1, Len(buffer))
    ELSE buffer

\* the body of the loop of _processing_loop for the frames of one read
RECURSIVE ProcessFrames(_, _)
ProcessFrames(a, frames) ==
    IF frames = <<>>
    THEN a
    ELSE LET r == ProcessFrame(a.segmenter, Head(frames))
         IN  ProcessFrames(
                 [a EXCEPT !.all_frames = Append(@, Head(frames)),
                           !.segmenter = r.vad,
                           !.segments = IF r.ret # NoSegment
                                        THEN Append(@, r.ret) ELSE @],
                 Tail(frames))

\* thread s is in the loop of _processing_loop
InLoop(a, s) ==
    a.loops[s] \in {"loop", "orphan"}

\* RecordingController.start; started is whether the stream opens
RecordingStartHandler(a, started) ==
    IF a.state # Recording_IDLE THEN a
    ELSE LET created == [a EXCEPT !.capture = TRUE,
                                  !.buffer = <<>>,
                                  !.frames_captured = 0,
                                  !.running = FALSE,
                                  !.segmenter = VadSegmenterInit,
                                  !.all_frames = <<>>,
                                  !.segments = <<>>]
         IN  IF ~started THEN created
             ELSE [created EXCEPT !.running = TRUE,
                                  !.state = Recording_RECORDING,
                                  !.session = a.session + 1,
                                  !.loops[a.session + 1] = "loop"]

\* RecordingController.stop
RecordingStopHandler(a) ==
    IF a.state # Recording_RECORDING THEN a
    ELSE [a EXCEPT !.state = Recording_FINALIZING]

\* RecordingController.reset: the capture is stopped and dropped, the data
\* cleared, the state set to IDLE; the processing thread is left alone
RecordingResetHandler(a) ==
    [a EXCEPT !.capture = FALSE,
              !.buffer = <<>>,
              !.frames_captured = 0,
              !.running = FALSE,
              !.all_frames = <<>>,
              !.segments = <<>>,
              !.state = Recording_IDLE,
              !.loops = [s \in LoopIds |-> IF @[s] = "loop" THEN "orphan" ELSE @[s]]]

\* RecordingController._finalize on thread s up to its finally clause
RecordingFinalizeHandler(a, s) ==
    LET r == Finalize(a.segmenter)
        segments == IF r.ret # NoSegment THEN Append(a.segments, r.ret)
                    ELSE a.segments
    IN  [a EXCEPT !.running = FALSE,
                  !.segmenter = r.vad,
                  !.segments = segments,
                  !.delivered = IF segments # <<>> THEN @ \cup {s} ELSE @,
                  !.loops[s] = "finalized"]

\* RecordingController._finalize on thread s: the finally clause, and the
\* end of the thread
RecordingFinalizeEnd(a, s) ==
    [a EXCEPT !.state = Recording_IDLE,
              !.loops[s] = "none"]

\* ---- actions of the recording specification ----

\* RecordingController.start; the stream may fail to open
RecordingStart ==
    /\ audio.session < MaxSessions
    /\ \E started \in BOOLEAN :
         audio' = RecordingStartHandler(audio, started)
    /\ UNCHANGED <<hkVars, logged, workerVars, calls, appVars, listenerVars,
                   lockVars, vad, keyboardVars>>

\* RecordingController.stop
RecordingStop ==
    /\ audio' = RecordingStopHandler(audio)
    /\ UNCHANGED <<hkVars, logged, workerVars, calls, appVars, listenerVars,
                   lockVars, vad, keyboardVars>>

\* the stream delivers a frame on its own thread
AudioCallback ==
    /\ audio.running
    /\ audio.frames_captured < MaxFrames
    /\ \E speech \in BOOLEAN : audio' = AudioCallbackHandler(audio, speech)
    /\ UNCHANGED <<hkVars, logged, workerVars, calls, appVars, listenerVars,
                   lockVars, vad, keyboardVars>>

\* RecordingController.reset
RecordingReset ==
    /\ audio' = RecordingResetHandler(audio)
    /\ UNCHANGED <<hkVars, logged, workerVars, calls, appVars, listenerVars,
                   lockVars, vad, keyboardVars>>

\* one pass of the loop of _processing_loop on thread s that finds frames
ProcessingLoop(s) ==
    /\ InLoop(audio, s)
    /\ audio.state = Recording_RECORDING
    /\ LET frames == GetFrames(audio.buffer, MAX_FRAMES_PER_READ)
       IN  /\ frames # <<>>
           /\ Len(audio.all_frames) + Len(frames) <= MaxProcessed
           /\ audio' = ProcessFrames(audio, frames)
    /\ UNCHANGED <<hkVars, logged, workerVars, calls, appVars, listenerVars,
                   lockVars, vad, keyboardVars>>

\* the loop of _processing_loop on thread s ends and _finalize runs
ProcessingFinalize(s) ==
    /\ InLoop(audio, s)
    /\ audio.state # Recording_RECORDING
    /\ audio' = RecordingFinalizeHandler(audio, s)
    /\ UNCHANGED <<hkVars, logged, workerVars, calls, appVars, listenerVars,
                   lockVars, vad, keyboardVars>>

\* _finalize on thread s sets the state and the thread ends
ProcessingFinalizeEnd(s) ==
    /\ audio.loops[s] = "finalized"
    /\ audio' = RecordingFinalizeEnd(audio, s)
    /\ UNCHANGED <<hkVars, logged, workerVars, calls, appVars, listenerVars,
                   lockVars, vad, keyboardVars>>

(***************************************************************************)
(* PyObjCKeyboardListener: the modifier keys and their flags               *)
(***************************************************************************)

\* KeyCodes.MODIFIER_KEYS, the Option and the Command keys of the eight
ModifierKeys == {"alt_l", "alt_r", "cmd_l", "cmd_r"}

\* the flag that update_from_flags_changed reads for a key code
FlagOf(k) ==
    IF k \in {"alt_l", "alt_r"} THEN "kCGEventFlagMaskAlternate"
    ELSE "kCGEventFlagMaskCommand"

\* CGEventGetFlags of a kCGEventFlagsChanged event: the mask of a modifier
\* is set while its left or its right key is held
EventFlags(held) ==
    {FlagOf(k) : k \in held}

\* the callbacks of the listener
ON_PRESS == "on_press"
ON_RELEASE == "on_release"

\* ModifierTracker.__init__, and the keys held on the keyboard; event is the
\* last change of a key, delivered the callbacks made for it
KeyboardInit ==
    [held          |-> {},
     key_states    |-> [k \in ModifierKeys |-> FALSE],
     current_flags |-> {},
     event         |-> <<>>,
     delivered     |-> <<>>]

\* ModifierTracker.update_from_flags_changed
UpdateFromFlagsChanged(b, keycode, new_flags) ==
    LET was_pressed == b.key_states[keycode]
        is_pressed == FlagOf(keycode) \in new_flags
    IN  IF was_pressed # is_pressed
        THEN [kb |-> [b EXCEPT !.key_states[keycode] = is_pressed,
                               !.current_flags = new_flags],
              result |-> <<[key |-> keycode, is_pressed |-> is_pressed]>>]
        ELSE [kb |-> [b EXCEPT !.current_flags = new_flags],
              result |-> <<>>]

\* PyObjCKeyboardListener._event_callback for kCGEventFlagsChanged
EventCallback(b, keycode, flags) ==
    LET u == UpdateFromFlagsChanged(b, keycode, flags)
    IN  [u.kb EXCEPT !.delivered =
           IF u.result = <<>> THEN <<>>
           ELSE <<[callback |-> IF u.result[1].is_pressed THEN ON_PRESS
                                                           ELSE ON_RELEASE,
                   key |-> u.result[1].key]>>]

\* ---- actions of the keyboard specification ----

\* a modifier key goes down: the event tap gets kCGEventFlagsChanged
PhysicalPress(k) ==
    /\ k \notin kb.held
    /\ LET held == kb.held \cup {k}
       IN  kb' = EventCallback([kb EXCEPT !.held = held,
                                          !.event = <<[callback |-> ON_PRESS,
                                                       key |-> k]>>],
                               k, EventFlags(held))
    /\ UNCHANGED <<hkVars, logged, workerVars, calls, appVars, listenerVars,
                   lockVars, audioVars>>

\* a modifier key goes up: the event tap gets kCGEventFlagsChanged
PhysicalRelease(k) ==
    /\ k \in kb.held
    /\ LET held == kb.held \ {k}
       IN  kb' = EventCallback([kb EXCEPT !.held = held,
                                          !.event = <<[callback |-> ON_RELEASE,
                                                       key |-> k]>>],
                               k, EventFlags(held))
    /\ UNCHANGED <<hkVars, logged, workerVars, calls, appVars, listenerVars,
                   lockVars, audioVars>>

Init ==
    /\ hk = HotkeyManagerInit
    /\ fired = <<>>
    /\ logged = <<>>
    /\ keydown_age = [k \in Keys |-> DEBOUNCE_MS]
    /\ keydowns = 0
    /\ worker = ASRWorkerInit
    /\ called = <<>>
    /\ calls = <<>>
    /\ app = FastVoiceAppInit
    /\ cbt = CallbackThreadInit
    /\ caps = [c \in CaptureIds |-> AudioCaptureNone]
    /\ signals = <<>>
    /\ lsn = ListenerInit
    /\ lk = LocksInit
    /\ audio = RecordingControllerInit
    /\ vad = SegmenterInit
    /\ kb = KeyboardInit

Next ==
    \/ Start
    \/ \E k \in Keys : OnPress(k)
    \/ \E k \in Keys : OnRelease(k)
    \/ \E t \in hk.timers : TimerFires(t)
    \/ TailTimerFires
    \/ WatchdogLoop
    \/ ClearPressedKeys
    \/ TickTime

Spec == Init /\ [][Next]_vars

\* the worker with a client of its own
NextWorker ==
    \/ WorkerStart
    \/ WorkerStop
    \/ WorkerRestart
    \/ StartSession
    \/ \E audio_data \in ClientAudio \cup {EMPTY_AUDIO} : ProcessAudio(audio_data)
    \/ \E segment \in ClientAudio : PushSegment(segment)
    \/ FinalizeSession
    \/ \E t \in WorkerThreadIds : WorkerGet(t)
    \/ \E t \in WorkerThreadIds : WorkerCompare(t)
    \/ \E t \in WorkerThreadIds : WorkerRecognize(t)
    \/ \E t \in WorkerThreadIds : WorkerExit(t)

SpecWorker == Init /\ [][NextWorker]_vars

\* the application: hotkey callbacks, capture monitors, worker, main thread
NextApp ==
    \/ AppInitialize
    \/ \E mode \in Modes : HkPress(mode)
    \/ HkPressStart
    \/ \E mode \in Modes : HkRelease(mode)
    \/ HkResetWhileHeld
    \/ HkFinalizeEnter
    \/ HkStopRecording
    \/ HkStopCopy
    \/ HkSubmit
    \/ HkClean
    \/ \E c \in CaptureIds : MonitorTimeout(c)
    \/ \E c \in CaptureIds : MonitorExit(c)
    \/ \E c \in CaptureIds : MonitorStopCopy(c)
    \/ \E c \in CaptureIds : MonitorFinalizeEnter(c)
    \/ \E c \in CaptureIds : MonitorSubmit(c)
    \/ \E c \in CaptureIds : MonitorClean(c)
    \/ \E t \in WorkerThreadIds : WorkerGet(t)
    \/ \E t \in WorkerThreadIds : WorkerCompare(t)
    \/ \E t \in WorkerThreadIds : WorkerRecognize(t)
    \/ MainDelivers

SpecApp == Init /\ [][NextApp]_vars

\* a segmenter fed by a caller of its own
NextVad ==
    \/ VadConstruct
    \/ VadProcessFrame
    \/ VadFinalize

SpecVad == Init /\ [][NextVad]_vars

\* the event tap of the PyObjC listener under the modifier keys
NextKeyboard ==
    \/ \E k \in ModifierKeys : PhysicalPress(k)
    \/ \E k \in ModifierKeys : PhysicalRelease(k)

SpecKeyboard == Init /\ [][NextKeyboard]_vars

\* a recording: main thread, stream thread, processing thread
NextRecording ==
    \/ RecordingStart
    \/ RecordingStop
    \/ RecordingReset
    \/ AudioCallback
    \/ \E s \in LoopIds : ProcessingLoop(s)
    \/ \E s \in LoopIds : ProcessingFinalize(s)
    \/ \E s \in LoopIds : ProcessingFinalizeEnd(s)

SpecRecording == Init /\ [][NextRecording]_vars

\* the listener: main thread, listener thread, watchdog, restart threads
NextListener ==
    \/ ListenerStart
    \/ ListenerStop
    \/ ListenerDies
    \/ ListenerPress
    \/ ListenerRelease
    \/ ListenerTailTimerFires
    \/ WatchdogIteration
    \/ Recover
    \/ \E t \in RestartThreads : RestartStop(t)
    \/ \E t \in RestartThreads : RestartCreate(t)
    \/ \E t \in RestartThreads : RestartCheck(t)
    \/ TickSecond

SpecListener == Init /\ [][NextListener]_vars

\* the watchdog and the listener under the calls of the main thread, with
\* restart_watchdog() called from outside as well, and no key events
NextWatchdog ==
    \/ ListenerStart
    \/ ListenerStop
    \/ ListenerDies
    \/ WatchdogIteration
    \/ Recover
    \/ RestartWatchdog
    \/ \E t \in RestartThreads : RestartStop(t)
    \/ \E t \in RestartThreads : RestartCreate(t)
    \/ \E t \in RestartThreads : RestartCheck(t)
    \/ TickSecond

SpecWatchdog == Init /\ [][NextWatchdog]_vars

\* the locks: every thread makes its calls, in any interleaving
NextLocks ==
    \/ \E t \in Threads : LockCall(t)
    \/ \E t \in Threads : LockAcquire(t)
    \/ \E t \in Threads : LockRelease(t)

SpecLocks == Init /\ [][NextLocks]_vars

(***************************************************************************)
(* Properties of the hotkey state machine                                  *)
(***************************************************************************)

(* C1: the state machine does not stay outside Idle: a waiting state is    *)
(* left when its timer has run out (at most one Tick late), a tail state   *)
(* when the tail delay has run out, and a recording state when the         *)
(* watchdog timeout has run out and the watchdog has woken up, so the time *)
(* spent in a state other than Idle never exceeds that state's timeout.    *)
C1_NoStateOutlivesItsTimeout ==
    /\ hk.state = WAIT_FIRST_RELEASE =>
         hk.last_activity_time <= FIRST_RELEASE_TIMEOUT + Tick
    /\ hk.state = WAIT_SECOND_KEY =>
         hk.last_activity_time <= DOUBLE_CLICK_INTERVAL + Tick
    /\ hk.state = WAIT_LONG_PRESS =>
         hk.last_activity_time <= LONG_PRESS_THRESHOLD + Tick
    /\ hk.state \in {VOICE_TAIL_COLLECTING, TRANSLATE_TAIL_COLLECTING} =>
         hk.last_activity_time <= TAIL_SOUND_DELAY + Tick
    /\ hk.state \in {VOICE_RECORDING, TRANSLATE_RECORDING} =>
         hk.last_activity_time <= WATCHDOG_TIMEOUT_MS + WATCHDOG_SLEEP_MS

\* the watchdog has just forced a state that outlived its timeout to Idle
C1_Witness ==
    /\ logged = <<LOG_WATCHDOG_RESET>>
    /\ hk.state = IDLE
    /\ hk.watchdog_woke

(* C7: the translate start callback fires only when the second press has   *)
(* been held for at least LONG_PRESS_THRESHOLD: in the state in which      *)
(* QUICK_TRANSLATE_PRESS has just fired, the second key-down is at least   *)
(* that old.                                                               *)
C7_StartOnlyAfterLongPress ==
    (\E i \in DOMAIN fired : fired[i] = QUICK_TRANSLATE_PRESS) =>
        /\ hk.second_keydown_time # NONE
        /\ hk.second_keydown_time >= LONG_PRESS_THRESHOLD

(* C8: in the double-press mode a timeout in a waiting state, a first      *)
(* release later than FIRST_RELEASE_TIMEOUT, a second press later than     *)
(* DOUBLE_CLICK_INTERVAL after the first release, and a release of the     *)
(* second press before LONG_PRESS_THRESHOLD each leave the state machine   *)
(* in Idle and trigger no callback.                                        *)
C8_AbortForcesIdleSilently ==
    /\ \A t \in hk.timers :
         ( /\ t.remaining <= 0
           /\ \/ t.kind = FIRST_PRESS_TIMEOUT /\ hk.state = WAIT_FIRST_RELEASE
              \/ t.kind = DOUBLE_CLICK_TIMEOUT /\ hk.state = WAIT_SECOND_KEY )
         => LET r == TimerHandler(hk, t)
            IN  r.hk.state = IDLE /\ r.fired = <<>>
    /\ \A k \in Hotkeys.quick_translate :
         /\ ( /\ hk.state = WAIT_FIRST_RELEASE
              /\ hk.first_keydown_time > FIRST_RELEASE_TIMEOUT )
            => LET r == OnReleaseHandler(hk, k)
               IN  r.hk.state = IDLE /\ r.fired = <<>>
         /\ ( /\ hk.state = WAIT_SECOND_KEY
              /\ hk.first_keyup_time > DOUBLE_CLICK_INTERVAL
              /\ keydown_age[k] >= DEBOUNCE_MS
              /\ MatchHotkey("quick_translate", hk.pressed_keys \cup {k}) )
            => LET r == OnPressHandler(hk, k)
               IN  r.hk.state = IDLE /\ r.fired = <<>>
         /\ ( /\ hk.state = WAIT_LONG_PRESS
              /\ hk.second_keydown_time < LONG_PRESS_THRESHOLD )
            => LET r == OnReleaseHandler(hk, k)
               IN  r.hk.state = IDLE /\ r.fired = <<>>

\* a second press that came too late has just been turned down
C8_Witness ==
    /\ logged = <<LOG_INTERVAL_TOO_LONG>>
    /\ hk.state = IDLE
    /\ fired = <<>>

(* C9: in the single-press mode the release of the bound key during        *)
(* recording leads to the tail state without a callback; in the tail state *)
(* the tail timer is pending and due exactly TAIL_SOUND_DELAY after the    *)
(* release, and when it runs it leads to Idle and triggers the stop        *)
(* callback once; the stop callback is triggered by no other step.         *)
C9_StopOnceAfterTailDelay ==
    [][ /\ hk.state = VOICE_RECORDING =>
             \A k \in Hotkeys.voice_input :
                LET r == OnReleaseHandler(hk, k)
                IN  r.hk.state = VOICE_TAIL_COLLECTING /\ r.fired = <<>>
        /\ hk.state = VOICE_TAIL_COLLECTING =>
             /\ hk.tail_timer =
                  {[kind |-> FINISH_VOICE_TAIL,
                    remaining |-> TAIL_SOUND_DELAY - hk.last_activity_time]}
             /\ \A t \in hk.tail_timer :
                  LET r == TailTimerHandler(hk, t)
                  IN  /\ r.hk.state = IDLE
                      /\ r.fired = <<VOICE_INPUT_RELEASE>>
                      /\ r.hk.tail_timer = {}
        /\ (\E i \in DOMAIN fired' : fired'[i] = VOICE_INPUT_RELEASE) =>
             /\ hk.state = VOICE_TAIL_COLLECTING
             /\ hk.last_activity_time >= TAIL_SOUND_DELAY
             /\ hk'.state = IDLE
             /\ fired' = <<VOICE_INPUT_RELEASE>>
      ]_vars

\* the tail timer has just run: stop callback triggered, state Idle
C9_Witness ==
    /\ fired = <<VOICE_INPUT_RELEASE>>
    /\ hk.state = IDLE
    /\ hk.tail_timer = {}

(* C10: a key-down that follows the previous key-down for the same key by  *)
(* less than DEBOUNCE_MS changes no state, arms no timer and triggers no   *)
(* callback.                                                               *)
C10_SecondKeyDownIgnored ==
    \A k \in Keys :
        ( /\ hk.listener = "alive"
          /\ keydowns < MaxKeyDowns
          /\ keydown_age[k] < DEBOUNCE_MS )
        => LET r == OnPressHandler(hk, k)
           IN  /\ r.hk.state = hk.state
               /\ r.hk.timers = hk.timers
               /\ r.hk.tail_timer = hk.tail_timer
               /\ r.fired = <<>>

(***************************************************************************)
(* Properties of the application and of the worker                         *)
(***************************************************************************)

C3_GenerationStrictlyIncreasing ==
    [][ /\ worker'.generation >= worker.generation
        /\ StartSessionHandler(worker).generation > worker.generation
        /\ CanStart(WorkerStopHandler(worker)) =>
             /\ StartSessionHandler(WorkerRestartHandler(worker)).generation
                  > worker.generation
             /\ StartSessionHandler(WorkerStartHandler(WorkerStopHandler(worker))).generation
                  > worker.generation
      ]_vars

\* start_session has just been called after a restart that followed an
\* earlier session
C3_Witness ==
    /\ calls = <<"restart", "start_session">>
    /\ worker.generation >= 2

(* C4: when the worker has taken a task from the queue whose generation is *)
(* not the live generation, the step that deals with the task drops it:    *)
(* the drop is logged, no recognition is made and no callback is invoked.  *)
C4_StaleTaskDroppedSilently ==
    [][ \A t \in WorkerThreadIds :
          ( /\ worker.threads[t].pc = "got"
            /\ Unpack(worker, worker.threads[t].item[1]) # worker.generation
            /\ worker'.threads[t].pc # "got" )
          => /\ called' = <<>>
             /\ logged' = <<LOG_TASK_EXPIRED>>
             /\ worker'.threads[t].pc = "idle"
             /\ worker'.asr_engine = worker.asr_engine
             /\ signals' = signals
      ]_vars

\* a stale task has just been dropped
C4_Witness ==
    /\ logged = <<LOG_TASK_EXPIRED>>
    /\ called = <<>>
    /\ worker.threads[1].pc = "idle"
    /\ worker.generation >= 2

(* C5: a session that has been finalized returns to IDLE whatever the      *)
(* recognition comes to: once nothing is left to run (no callback or       *)
(* monitor is at work, the queue is empty, the worker thread waits and no  *)
(* signal is pending) the state is not FINALIZING.                         *)
C5_FinalizedSessionReturnsToIdle ==
    ( /\ cbt.pc = "idle"
      /\ \A c \in CaptureIds : caps[c].pc \in {"none", "done"}
      /\ worker.segment_queue = <<>>
      /\ \A t \in WorkerThreadIds : worker.threads[t].pc \in {"none", "idle"}
      /\ signals = <<>> )
    => app.state # AppState_FINALIZING

(* C6: for a capture that holds audio exactly one ASR task is enqueued:    *)
(* never two, and one once the capture has stopped and every finalize that *)
(* deals with it has returned.                                             *)
C6_ExactlyOneTaskPerSession ==
    \A c \in CaptureIds :
        /\ caps[c].submitted <= 1
        /\ ( /\ caps[c].has_audio
             /\ caps[c].pc = "done"
             /\ ~caps[c].is_recording
             /\ cbt.pc = "idle" )
           => caps[c].submitted = 1

(***************************************************************************)
(* Properties of reset, of the callback boundary and of session start      *)
(***************************************************************************)

(* C11: a reset cancels all pending timers: a timer that was pending when  *)
(* a reset was made can no longer change the state or fire a callback      *)
(* when it runs.                                                           *)
C11_ResetCancelsAllTimers ==
    \A t \in hk.timers :
        (t.survived_reset /\ t.remaining <= 0) =>
            LET r == TimerHandler(hk, t)
            IN  /\ r.hk.state = hk.state
                /\ r.fired = <<>>

(* C12: reset can be made in any state, leaves the state machine in IDLE   *)
(* with no tail timer, and a second reset right after it changes nothing.  *)
C12_ResetIdempotent ==
    LET once == ResetState(hk)
    IN  /\ once.state = IDLE
        /\ once.tail_timer = {}
        /\ ResetState(once) = once

\* a reset has just been made outside IDLE (the first press was not released
\* in time) and clear_pressed_keys is about to make another
C12_Witness ==
    /\ logged = <<LOG_FIRST_PRESS_TIMEOUT>>
    /\ hk.state = IDLE
    /\ hk.pressed_keys # {}
    /\ ClearPressedKeysHandler(hk).hk = [hk EXCEPT !.pressed_keys = {}]

(* C13: when a callback triggered by the hotkey manager has raised, the    *)
(* exception is caught and the state machine is in IDLE after the step.    *)
C13_CallbackExceptionForcesIdle ==
    ( /\ logged # <<>>
      /\ logged[Len(logged)] = LOG_CALLBACK_FAILED )
    => hk.state = IDLE

C15_RestartLeavesIdle ==
    (logged = <<LOG_LISTENER_RESTARTED>>
       /\ lsn.last_key_event_time > WATCHDOG_SLEEP_S) =>
        IsAlive(lsn) /\ hk.state = IDLE

\* C16: at most one thread executes _restart_listener at any time.
C16_RestartMutuallyExclusive ==
    Cardinality({t \in RestartThreads : lsn.restart[t].pc # "idle"}) <= 1

\* C17: at most one keyboard listener is running at any time, and a listener
\* that is running is the one self._listener refers to: every listener that
\* was replaced has been stopped.
C17_NoListenerLeaked ==
    /\ Cardinality({i \in ListenerIds : lsn.os[i] = "running"}) <= 1
    /\ \A i \in ListenerIds : lsn.os[i] = "running" => lsn.listener = i

C19_NoThreadHoldsTwoLocks ==
    \A t \in Threads : Cardinality(HeldBy(lk, t)) <= 1

\* C20: there is no cycle of threads each waiting for a lock that the next
\* one holds: no set of threads in which every thread waits for a thread of
\* the set.
C20_NoDeadlock ==
    LET waiting == {t \in Threads : \E u \in Threads : WaitsFor(lk, t, u)}
    IN  \A S \in SUBSET waiting :
            S # {} => \E t \in S : \A u \in S : ~WaitsFor(lk, t, u)

\* the watchdog waits for the lock of the hotkeys, which the listener holds
\* inside _on_press, and the listener waits in the press callback for the
\* lock of the application, which the monitor holds in _finalize_recording
C20_Witness ==
    /\ WaitsFor(lk, WATCHDOG_THREAD, LISTENER_THREAD)
    /\ WaitsFor(lk, LISTENER_THREAD, MONITOR_THREAD)
    /\ HeldBy(lk, MONITOR_THREAD) = {APP_STATE_LOCK}

(***************************************************************************)
(* Properties of the audio capture                                         *)
(***************************************************************************)

\* the buffer holds the newest frames of the stream, in the order they came
NewestFrames(a) ==
    /\ Len(a.buffer) = Min(a.frames_captured, buffer_maxlen)
    /\ \A i \in 1..Len(a.buffer) :
         a.buffer[i].n = a.frames_captured - Len(a.buffer) + i

\* C21: the capture ring buffer never holds more than buffer_maxlen frames;
\* a frame that arrives while the buffer is full takes the place of the oldest
\* buffered frame, so the buffer always holds the newest frames in order; and
\* the audio callback is never kept waiting: while the stream runs it can
\* deliver its next frame whatever the consumer is doing.
C21_RingBufferBounded ==
    /\ Len(audio.buffer) <= buffer_maxlen
    /\ NewestFrames(audio)
    /\ (audio.running /\ audio.frames_captured < MaxFrames)
           => ENABLED AudioCallback

\* a frame arrived at a full buffer and the oldest one went
C21_Witness ==
    /\ audio.frames_captured > buffer_maxlen
    /\ Len(audio.buffer) = buffer_maxlen
    /\ audio.buffer[1].n = audio.frames_captured - buffer_maxlen + 1
    /\ audio.state = Recording_RECORDING
    /\ audio.all_frames = <<>>

\* C22: frames reach the VAD segmenter in capture order and each captured
\* frame is consumed by the segmenter at most once: the frames handed to
\* process_frame carry strictly increasing capture numbers.
C22_FifoAtMostOnce ==
    \A i, j \in 1..Len(audio.all_frames) :
        i < j => audio.all_frames[i].n < audio.all_frames[j].n

\* the input is a run of speech followed by at least silence_threshold_frames
\* of silence, fed to a fresh segmenter by process_frame alone
SpeechThenSilence(s) ==
    /\ ~s.finalized
    /\ \A i \in 1..Len(s.fed) :
         IsSpeech(s.fed[i]) <=> i <= SpeechCount(s.fed)
    /\ Len(s.fed) - SpeechCount(s.fed) >= silence_threshold_frames

\* C23: feeding the segmenter speech_frames speech frames followed by at least
\* silence_threshold_frames silence frames yields exactly one segment, with
\* speech_frames speech frames in it, when speech_frames >= min_speech_frames,
\* and no segment when speech_frames < min_speech_frames.
C23_SpeechThenSilenceOneSegment ==
    SpeechThenSilence(vad) =>
        IF SpeechCount(vad.fed) >= min_speech_frames
        THEN /\ Len(vad.emitted) = 1
             /\ SpeechCount(vad.emitted[1]) = SpeechCount(vad.fed)
        ELSE vad.emitted = <<>>

\* a long enough run of speech and more silence than the threshold
C23_Witness ==
    /\ SpeechThenSilence(vad)
    /\ SpeechCount(vad.fed) >= min_speech_frames
    /\ Len(vad.fed) - SpeechCount(vad.fed) > silence_threshold_frames
    /\ Len(vad.emitted) = 1

\* C24: finalize() returns the buffered segment exactly when it holds at least
\* min_speech_frames speech frames, and returns nothing otherwise.
C24_FinalizeMinimumSpeech ==
    vad.last.op = "finalize" =>
        vad.last.ret = IF SpeechCount(vad.last.buffered) >= min_speech_frames
                       THEN vad.last.buffered
                       ELSE NoSegment

\* finalize returned a segment with just enough speech, silence at its end
C24_Witness ==
    /\ vad.last.op = "finalize"
    /\ vad.last.ret # NoSegment
    /\ SpeechCount(vad.last.ret) = min_speech_frames
    /\ Len(vad.last.ret) > min_speech_frames

(***************************************************************************)
(* Properties of the key events and of the timers                          *)
(***************************************************************************)

\* the edges of the two protocols that a key-down of key k takes
PressEdge(state, k) ==
    \/ k \in Hotkeys.voice_input /\ state = IDLE
    \/ k \in Hotkeys.quick_translate /\ state \in {IDLE, WAIT_SECOND_KEY}

\* the edges of the two protocols that a key-up of key k takes
ReleaseEdge(state, k) ==
    \/ k \in Hotkeys.voice_input /\ state = VOICE_RECORDING
    \/ k \in Hotkeys.quick_translate
         /\ state \in {WAIT_FIRST_RELEASE, WAIT_LONG_PRESS, TRANSLATE_RECORDING}

\* C25: a key event for which the current state has no edge (a bound key-down
\* in WAIT_FIRST_RELEASE, WAIT_LONG_PRESS, a recording or a tail state, a bound
\* key-up in IDLE, ...) is ignored: the state is unchanged, no timer is armed
\* or cancelled, and no callback fires.
C25_UnmatchedKeyEventIgnored ==
    [][\A k \in Keys :
         (\/ OnPress(k) /\ ~PressEdge(hk.state, k)
          \/ OnRelease(k) /\ ~ReleaseEdge(hk.state, k))
         => /\ hk'.state = hk.state
            /\ hk'.timers = hk.timers
            /\ hk'.tail_timer = hk.tail_timer
            /\ fired' = <<>>]_vars

\* the voice key went down again, past the debounce window, while recording
C25_Witness ==
    /\ hk.state = VOICE_RECORDING
    /\ hk.last_keydown_time["alt_l"] = 0
    /\ hk.last_activity_time >= DEBOUNCE_MS
    /\ fired = <<>>

(***************************************************************************)
(* Properties of recover() and start()                                     *)
(***************************************************************************)

\* the threads that are in watchdog_loop and stay in it
RunningWatchdogs(h, l) ==
    IF h.watchdog_running THEN l.watchdogs ELSE 0

\* the listeners whose thread runs
RunningListeners(l) ==
    {i \in ListenerIds : l.os[i] = "running"}

\* recover() returns: at once, or when its _restart_listener has ended
RecoverReturns ==
    /\ Recover \/ RestartCheck("MainThread")
    /\ lsn'.restart["MainThread"].pc = "idle"

\* C26: recover() and restart_watchdog() are idempotent: whenever one of them
\* has returned exactly one watchdog loop is running, no second watchdog
\* thread having been created, and when recover() has returned exactly one
\* listener is running.
C26_RecoverIdempotent ==
    [][/\ (RestartWatchdog \/ RecoverReturns)
            => RunningWatchdogs(hk', lsn') = 1
       /\ RecoverReturns
            => Cardinality(RunningListeners(lsn')) = 1]_vars

\* C27: when the listener cannot be brought up at start(), start() reports
\* the failure and nothing retries afterwards: no thread, of the watchdog or
\* of recover(), enters _restart_listener while the failure stands.
C27_NoRetryAfterStartFailure ==
    [][lsn.start_failed =>
         \A t \in RestartThreads :
             lsn.restart[t].pc = "idle" => lsn'.restart[t].pc = "idle"]_vars

(***************************************************************************)
(* Properties of the PyObjC listener                                       *)
(***************************************************************************)

\* C28: the left and the right key of a modifier are told apart: every press
\* and every release of one of them makes exactly one call, of on_press or of
\* on_release, with the name of that key, also while the key of the other
\* side is held.
C28_LeftRightDistinguished ==
    kb.delivered = kb.event

(***************************************************************************)
(* Properties of the transitions and of the timers                         *)
(***************************************************************************)

\* C29: every change of the hotkey state follows an edge of valid_transitions:
\* a transition asked for that has no edge from the current state is turned
\* down and leaves the manager as it is, and no step, _reset_state included,
\* takes the state to one the table does not allow from the state it was in.
C29_TransitionsFollowTable ==
    /\ [](\A new_state \in HotkeyState :
            new_state \notin ValidTransitions[hk.state]
                => TransitionState(hk, new_state) = hk)
    /\ [][hk'.state # hk.state
            => hk'.state \in ValidTransitions[hk.state]]_vars

\* _reset_state, which assigns IDLE itself, has taken the state machine out
\* of a recording
C29_Witness ==
    /\ logged = <<LOG_WATCHDOG_RESET>>
    /\ hk.state = IDLE
    /\ hk.last_activity_time = 0

\* the time since a timer that is not kept was started
TimerAge(t) ==
    (CASE t.kind = FIRST_PRESS_TIMEOUT -> FIRST_RELEASE_TIMEOUT
       [] t.kind = DOUBLE_CLICK_TIMEOUT -> DOUBLE_CLICK_INTERVAL
       [] t.kind = CHECK_LONG_PRESS -> LONG_PRESS_THRESHOLD) - t.remaining

\* C30: starting a timer cancels the timer that was pending, so at most one
\* timer is pending at any time, and a timer acts only on the visit of the
\* state that started it: a timer started before the state was entered
\* changes no state and triggers no callback when it runs.
C30_OneTimerPerStateVisit ==
    /\ Cardinality(hk.timers) + Cardinality(hk.tail_timer) <= 1
    /\ \A t \in hk.timers :
         (t.remaining <= 0 /\ TimerAge(t) > hk.last_activity_time) =>
             LET r == TimerHandler(hk, t)
             IN  /\ r.hk.state = hk.state
                 /\ r.fired = <<>>

(***************************************************************************)
(* Properties of the two bindings together                                 *)
(***************************************************************************)

\* the state of the protocol of the voice binding
VoiceState(state) ==
    IF state \in {VOICE_RECORDING, VOICE_TAIL_COLLECTING} THEN state ELSE IDLE

\* the state of the protocol of the translate binding
TranslateState(state) ==
    IF state \in {WAIT_FIRST_RELEASE, WAIT_SECOND_KEY, WAIT_LONG_PRESS,
                  TRANSLATE_RECORDING, TRANSLATE_TAIL_COLLECTING}
    THEN state ELSE IDLE

\* the timers that belong to the translate binding
TranslateTimers == {FIRST_PRESS_TIMEOUT, DOUBLE_CLICK_TIMEOUT, CHECK_LONG_PRESS}

\* C31: the two bindings have independent state machines: a key event or a
\* timer of one binding does not change the state of the other binding, and
\* a trigger sequence in progress on a binding goes on whatever the key of
\* the other binding does: the second key-down of the translate key, in
\* time and past the debounce window, is taken as the second press.
C31_BindingsIndependent ==
    [][/\ \A k \in Hotkeys.voice_input :
            (OnPress(k) \/ OnRelease(k))
                => TranslateState(hk'.state) = TranslateState(hk.state)
       /\ \A k \in Hotkeys.quick_translate :
            (OnPress(k) \/ OnRelease(k))
                => VoiceState(hk'.state) = VoiceState(hk.state)
       /\ \A t \in hk.timers :
            (t.kind \in TranslateTimers /\ TimerFires(t))
                => VoiceState(hk'.state) = VoiceState(hk.state)
       /\ \A k \in Hotkeys.quick_translate :
            (/\ OnPress(k)
             /\ ~Debounced(hk, k)
             /\ hk.state = WAIT_SECOND_KEY
             /\ hk.first_keyup_time # NONE
             /\ ~SecondPressTooLate(hk))
                => hk'.state = WAIT_LONG_PRESS]_vars

(***************************************************************************)
(* Properties of a restart of the listener                                 *)
(***************************************************************************)

\* the transient state of the manager is clear: idle, no key pressed, no
\* stamp of the debounce or of the double click, no timer pending
TransientStateClear(h) ==
    /\ h.state = IDLE
    /\ h.pressed_keys = {}
    /\ h.last_keydown_time = [k \in Keys |-> DEBOUNCE_MS]
    /\ h.first_keydown_time = NONE
    /\ h.first_keyup_time = NONE
    /\ h.second_keydown_time = NONE
    /\ h.timers = {}
    /\ h.tail_timer = {}

\* C32: a restart of the listener keeps the bindings and the callbacks (the
\* model has them fixed) and clears all transient state: when a restart has
\* just completed with success, the new listener having delivered no key
\* event yet, the state is idle, the set of pressed keys and the stamps of
\* the debounce and of the double click are empty and no timer is pending.
C32_RestartClearsTransientState ==
    (logged = <<LOG_LISTENER_RESTARTED>>
       /\ lsn.last_key_event_time > WATCHDOG_SLEEP_S) =>
        TransientStateClear(hk)

\* C33: the automatic recovery of the listener is bounded: a restart makes at
\* most MAX_RETRIES attempts and, when the last of them leaves no listener
\* alive, ends reporting the failure; and when a restart has ended in
\* failure the watchdog starts no further restart while the listener stays
\* dead.
C33_RecoveryBounded ==
    /\ [](\A t \in RestartThreads : lsn.restart[t].attempt <= MAX_RETRIES)
    /\ [][\A t \in RestartThreads :
            (/\ RestartCheck(t)
             /\ ~IsAlive(lsn)
             /\ lsn.restart[t].attempt = MAX_RETRIES)
                => /\ lsn'.restart[t] = RestartIdle
                   /\ logged' = <<LOG_LISTENER_RESTART_FAILED>>]_vars
    /\ [][(/\ lsn.restart_failed
           /\ ~IsAlive(lsn)
           /\ lsn.restart["ListenerRestart"].pc = "idle")
              => lsn'.restart["ListenerRestart"].pc = "idle"]_vars

(***************************************************************************)
(* Properties of the silence count of the segmenter                        *)
(***************************************************************************)

\* the silence frames at the end of a segment, since its last speech frame
TrailingSilence(segment) ==
    LET speech == {i \in 1..Len(segment) : IsSpeech(segment[i])} \cup {0}
    IN  Len(segment) - (CHOOSE i \in speech : \A j \in speech : j <= i)

\* C34: in speech, process_frame ends the segment exactly when the run of
\* consecutive silence frames since the last speech frame has reached
\* silence_threshold_frames: silence frames that speech frames separate do
\* not add up.
C34_SilenceRunEndsSegment ==
    (vad.last.op = "process_frame" /\ vad.last.buffered # <<>>) =>
        LET segment == Append(vad.last.buffered, vad.fed[Len(vad.fed)])
        IN  vad.segmenter.current_segment = <<>>
              <=> TrailingSilence(segment) = silence_threshold_frames

(***************************************************************************)
(* The worker's threads, the sessions and the streaming interface          *)
(***************************************************************************)

\* thread t is in _process_audio on a task that start_session has superseded
\* since the task was compared
Superseded(w, t) ==
    /\ w.threads[t].pc = "recognizing"
    /\ Expired(w, w.threads[t].item[1])

(* C35: the generation of a task is compared once, when the task has been  *)
(* taken from the queue.  When start_session() runs after that and before  *)
(* the recognition is over, the step that ends the recognition does not    *)
(* drop the task: nothing is logged as expired, and a text recognized is   *)
(* delivered to on_result.                                                 *)
C35_SupersededResultDelivered ==
    [][ \A t \in WorkerThreadIds :
          (Superseded(worker, t) /\ worker'.threads[t].pc # "recognizing")
          => /\ logged' \in {<<LOG_ASR_RESULT>>, <<LOG_ASR_EMPTY>>, <<LOG_ASR_FAILED>>}
             /\ logged' = <<LOG_ASR_RESULT>> <=> called' = <<ON_RESULT>>
             /\ ProcessItem(worker, t, TEXT).called = <<ON_RESULT>>
      ]_vars

\* start_session was the client's last call, and since then the result of a
\* task submitted before it has been delivered
C35_Witness ==
    /\ calls = <<"process_audio", "start_session">>
    /\ called = <<ON_RESULT>>
    /\ logged = <<LOG_ASR_RESULT>>
    /\ worker.generation = 1

(* C36: at most one thread is in _worker_loop at any time, also after      *)
(* stop() followed by start() or restart(): with one consumer every task   *)
(* is taken from the queue once and the tasks are dealt with in the order  *)
(* in which they were put.  No two threads hold a task at the same time.   *)
C36_SingleConsumer ==
    /\ Cardinality(LiveThreads(worker)) <= 1
    /\ Cardinality({t \in WorkerThreadIds : worker.threads[t].item # <<>>}) <= 1

(* C37: a segment pushed with push_segment(), or the audio of the session  *)
(* put by finalize_session(), belongs to the session that start_session()  *)
(* began: when a thread compares it while that session is the live one,    *)
(* it is not dropped as expired but handed to _process_audio.              *)
C37_StreamedAudioIsCurrent ==
    [][ \A t \in WorkerThreadIds :
          ( /\ worker.threads[t].pc = "got"
            /\ "segments" \in DOMAIN worker.threads[t].item[1]
            /\ worker.generation >= 1
            /\ worker.threads[t].item[1].session = worker.generation
            /\ worker'.threads[t].pc # "got" )
          => /\ worker'.threads[t].pc = "recognizing"
             /\ logged' # <<LOG_TASK_EXPIRED>>
      ]_vars

(***************************************************************************)
(* Sessions of the hotkey state machine                                    *)
(***************************************************************************)

\* the states in which a session of a mode is open: its start callback has
\* been triggered and its stop callback has not
SessionStates ==
    [ voice_input |-> {VOICE_RECORDING, VOICE_TAIL_COLLECTING},
      quick_translate |-> {TRANSLATE_RECORDING, TRANSLATE_TAIL_COLLECTING} ]

StartCallback ==
    [ voice_input |-> VOICE_INPUT_PRESS, quick_translate |-> QUICK_TRANSLATE_PRESS ]

StopCallback ==
    [ voice_input |-> VOICE_INPUT_RELEASE, quick_translate |-> QUICK_TRANSLATE_RELEASE ]

(* C38: the start and stop callbacks of a mode alternate.  A start         *)
(* callback is triggered only by a step that opens a session when none is  *)
(* open, a stop callback only by a step that closes the open session, and  *)
(* every step that closes a session, a reset by the watchdog or by         *)
(* clear_pressed_keys() included, triggers its stop callback once.         *)
C38_CallbacksAlternate ==
    [][ \A mode \in DOMAIN SessionStates :
          /\ (\E i \in DOMAIN fired' : fired'[i] = StartCallback[mode]) =>
               /\ hk.state \notin SessionStates.voice_input \cup SessionStates.quick_translate
               /\ hk'.state \in SessionStates[mode]
               /\ fired' = <<StartCallback[mode]>>
          /\ (\E i \in DOMAIN fired' : fired'[i] = StopCallback[mode]) =>
               /\ hk.state \in SessionStates[mode]
               /\ hk'.state \notin SessionStates[mode]
               /\ fired' = <<StopCallback[mode]>>
          /\ (hk.state \in SessionStates[mode] /\ hk'.state \notin SessionStates[mode]) =>
               fired' = <<StopCallback[mode]>>
      ]_vars

(***************************************************************************)
(* Finalizes and sessions of the application                               *)
(***************************************************************************)

\* capture c is that of an earlier session than the one the application
\* holds: captures are numbered in the order of the sessions
LaterSessionHeld(c) ==
    app.capture > c

(* C39: the finalize that the auto-stop of a capture runs does not act on  *)
(* a session started later: while the application holds a later capture,   *)
(* it does not change the state, puts no task in the queue and does not    *)
(* drop the reference to that capture; and every task in the queue carries *)
(* the generation of the session whose capture recorded its audio.  (The   *)
(* finalize of a key-up runs under the lock of the hotkey manager, under   *)
(* which every press callback runs: no session starts while it runs.)      *)
C39_FinalizeActsOnItsOwnSession ==
    /\ [][ \A c \in CaptureIds :
             ( /\ caps[c].pc \in {"enter", "submit", "clean"}
               /\ caps'[c].pc # caps[c].pc
               /\ LaterSessionHeld(c) )
             => /\ app'.state = app.state
                /\ worker'.segment_queue = worker.segment_queue
                /\ app'.capture = app.capture
         ]_vars
    /\ [](\A i \in DOMAIN worker.segment_queue :
             worker.segment_queue[i].generation = worker.segment_queue[i].audio)

(***************************************************************************)
(* The processing threads of the RecordingController                       *)
(***************************************************************************)

\* the threads that are in _processing_loop
ActiveLoops(a) ==
    {s \in LoopIds : a.loops[s] # "none"}

(* C40: whatever the order of start(), stop() and reset(), at most one     *)
(* thread is in _processing_loop; and the thread of a recording that was   *)
(* reset does not call on_recording_complete, and no thread of an earlier  *)
(* recording sets the state once a later recording has been started.       *)
C40_OneLoopAndResetIsFinal ==
    /\ [](Cardinality(ActiveLoops(audio)) <= 1)
    /\ [][ \A s \in LoopIds :
             /\ (audio.loops[s] = "orphan" /\ audio'.loops[s] # "orphan")
                  => audio'.delivered = audio.delivered
             /\ (audio.session > s /\ audio.loops[s] # "none"
                                   /\ audio'.loops[s] # audio.loops[s])
                  => audio'.state = audio.state
         ]_vars

====
